---------------------------- MODULE Spec2Model ----------------------------
(***************************************************************************)
(* Knowledge-gap agent: the orchestrator's run_full_analysis pipeline and  *)
(* the three analyzer agents (gap detector, FAQ generator, content         *)
(* analyzer) it sequences.                                                 *)
(*                                                                         *)
(* Text is modelled as a sequence of tokens (a token is a character or an  *)
(* unsplittable literal chunk); the empty string is <<>>.  A Python dict   *)
(* is a function whose DOMAIN is the set of keys present.  Scores are      *)
(* floats expressed in tenths (10 is 1.0, 15 is 1.5).                      *)
(***************************************************************************)
EXTENDS Integers, Sequences, FiniteSets, TLC

VARIABLES
    pc,             \* position of the run inside run_full_analysis
    inp,            \* arguments of the run
    report,         \* the AnalysisReport instance of the run
    gap_result,     \* local gap_result of run_full_analysis
    content_titles, \* local content_titles of run_full_analysis
    outstanding,    \* completion-service calls issued and not yet returned
    calls,          \* history: the calls issued to the analyzer agents, in order
    returns,        \* history: the values those calls returned, in order
    raised,         \* the exception that left run_full_analysis, or None
    call,           \* the last analyzer operation invoked on its own, with its outcome
    prev,           \* the analyzer operation invoked before that one
    parked,         \* the locals of a second run that is suspended at an await
    uuids,          \* how many uuid4 values have been drawn
    db,             \* the committed rows of the database
    route,          \* position of a run_analysis request
    votes,          \* the faq_feedback requests and the rows their sessions loaded
    response        \* what the last FAQ request answered

vars == <<pc, inp, report, gap_result, content_titles, outstanding, calls,
          returns, raised, call, prev, parked, uuids, db, route, votes,
          response>>

runVars == <<pc, inp, report, gap_result, content_titles, outstanding, calls,
             returns, raised>>

apiVars == <<db, route, votes, response>>

-----------------------------------------------------------------------------
(* Python values *)

\* An Optional[List] argument: None or a list
NoneList == [present |-> FALSE, items |-> <<>>]
List(xs) == [present |-> TRUE, items |-> xs]

\* truthiness of an Optional[List]: None and [] are falsy
Truthy(xs) == xs.present /\ xs.items # <<>>

\* len(xs) if xs else 0
LenOrZero(xs) == IF Truthy(xs) THEN Len(xs.items) ELSE 0

\* dict.get(key, default)
Get(d, k, default) == IF k \in DOMAIN d THEN d[k] ELSE default

\* d[key] = v
DictSet(d, k, v) == [x \in DOMAIN d \cup {k} |-> IF x = k THEN v ELSE d[x]]

\* xs[:n]
Take(xs, n) == IF Len(xs) <= n THEN xs ELSE SubSeq(xs, 1, n)

Min(a, b) == IF a <= b THEN a ELSE b

\* "sep".join(rows), rows a sequence of texts (split in halves to keep the
\* evaluation shallow)
RECURSIVE Join(_, _)
Join(rows, sep) ==
    IF rows = <<>> THEN <<>>
    ELSE IF Len(rows) = 1 THEN rows[1]
    ELSE LET half == Len(rows) \div 2
         IN  Join(SubSeq(rows, 1, half), sep) \o sep
                \o Join(SubSeq(rows, half + 1, Len(rows)), sep)

\* a Python value handed back by the JSON output parser: a raw mapping, an
\* instance of a result class, or any other JSON value (list, null, ...)
Dict(d) == [cls |-> "dict", items |-> d]
StrItem(t) == [cls |-> "str", text |-> t]
OtherJson == {[cls |-> "list"], [cls |-> "NoneType"]}

\* outcome of awaiting a chain or an agent operation
Return(v) == [kind |-> "return", value |-> v]
Raise(e) == [kind |-> "raise", error |-> e]

\* str(n) of an integer embedded by an f-string
IntText(n) == <<ToString(n)>>

-----------------------------------------------------------------------------
(* app/agents/gap_detector.py *)

QUERY_ROWS == 50
TICKET_ROWS == 30
TICKET_DESCRIPTION_CHARS == 200
FEEDBACK_ROWS == 20
EXISTING_CONTENT_ROWS == 20

DetectedGapFields ==
    {"title", "description", "topic", "priority", "evidence", "search_queries",
     "impact_score", "suggested_content"}

\* DetectedGap(**g): every field is required; priority is a plain str and
\* impact_score a plain float, so no enumeration or range is enforced
ValidDetectedGap(g) == DetectedGapFields \subseteq DOMAIN g

DetectedGap(g) == [f \in DetectedGapFields |-> g[f]]

\* GapDetectionResult(**d): analysis_summary is required, the rest defaults
ValidGapDetectionResult(d) ==
    /\ "analysis_summary" \in DOMAIN d
    /\ \A i \in 1..Len(Get(d, "gaps", <<>>)) : ValidDetectedGap(d["gaps"][i])

GapDetectionResult(d) ==
    [cls |-> "GapDetectionResult",
     gaps |-> [i \in 1..Len(Get(d, "gaps", <<>>)) |-> DetectedGap(d["gaps"][i])],
     analysis_summary |-> d["analysis_summary"],
     total_queries_analyzed |-> Get(d, "total_queries_analyzed", 0),
     total_tickets_analyzed |-> Get(d, "total_tickets_analyzed", 0),
     coverage_score |-> Get(d, "coverage_score", 0)]

\* a row's .get raises AttributeError when the row is a plain string
AllDicts(rows) == \A i \in 1..Len(rows) : rows[i].cls = "dict"

\* str(row) of a mapping embedded by an f-string
Repr(row) == <<ToString(row.items)>>

QueryRow(q) ==
    <<"- \"">> \o Get(q.items, "query", Repr(q)) \o <<"\" (count: ">>
        \o IntText(Get(q.items, "count", 1)) \o <<")">>

DetectTicketRow(t) ==
    <<"Ticket: ">> \o Get(t.items, "subject", <<"No subject">>) \o <<"\n">>
        \o <<"Description: ">>
        \o Take(Get(t.items, "description", <<>>), TICKET_DESCRIPTION_CHARS)

FeedbackRow(f) == <<"- ">> \o Get(f.items, "feedback", Repr(f))

Rows(xs, n, Row(_)) == [i \in 1..Min(Len(xs), n) |-> Row(xs[i])]

OrElse(text, placeholder) == IF text # <<>> THEN text ELSE placeholder

\* the slice forgotten: every query row is kept
ShapedQueriesUncapped(search_queries) == search_queries.items

\* line 143: search_queries[:50]
ShapedQueries(search_queries) == Take(search_queries.items, QUERY_ROWS)

\* detect, lines 139-168: the template variables sent to the chain, or the
\* exception raised while shaping
DetectPrompt(search_queries, support_tickets, user_feedback, existing_content) ==
    LET qs == ShapedQueries(search_queries)
        ts == Take(support_tickets.items, TICKET_ROWS)
        fs == Take(user_feedback.items, FEEDBACK_ROWS)
    IN  IF ~(AllDicts(qs) /\ AllDicts(ts) /\ AllDicts(fs))
        THEN Raise("AttributeError")
        ELSE Return(
          [search_queries |->
              OrElse(Join(Rows(qs, Len(qs), QueryRow), <<"\n">>),
                     <<"No search data available">>),
           support_tickets |->
              OrElse(Join(Rows(ts, TICKET_ROWS, DetectTicketRow), <<"\n\n">>),
                     <<"No ticket data available">>),
           user_feedback |->
              OrElse(Join(Rows(fs, FEEDBACK_ROWS, FeedbackRow), <<"\n">>),
                     <<"No feedback data available">>),
           existing_content |->
              IF Truthy(existing_content)
              THEN Join(Take(existing_content.items, EXISTING_CONTENT_ROWS), <<"\n">>)
              ELSE <<"No existing content">>])

\* detect, lines 170-174: what detect does with the parser's result
DetectResult(result, search_queries, support_tickets) ==
    IF result.cls = "dict"
    THEN LET d == DictSet(DictSet(result.items,
                      "total_queries_analyzed", LenOrZero(search_queries)),
                      "total_tickets_analyzed", LenOrZero(support_tickets))
         IN  IF ValidGapDetectionResult(d)
             THEN Return(GapDetectionResult(d))
             ELSE Raise("ValidationError")
    ELSE Return(result)

\* detect as a whole, given what the awaited chain produced
Detect(search_queries, support_tickets, user_feedback, existing_content, reply) ==
    LET shaped == DetectPrompt(search_queries, support_tickets, user_feedback,
                               existing_content)
    IN  IF shaped.kind = "raise" THEN shaped
        ELSE IF reply.kind = "raise" THEN reply
        ELSE DetectResult(reply.value, search_queries, support_tickets)

\* detect_from_searches, lines 85-97
DetectFromSearchesPrompt(zero_result_queries, existing_content) ==
    LET qs == Take(zero_result_queries.items, QUERY_ROWS)
    IN  IF ~zero_result_queries.present THEN Raise("TypeError")
        ELSE IF ~AllDicts(qs) THEN Raise("AttributeError")
        ELSE Return(
          [search_queries |->
              OrElse(Join(Rows(qs, QUERY_ROWS, QueryRow), <<"\n">>),
                     <<"No search data available">>),
           support_tickets |-> <<"No ticket data provided">>,
           user_feedback |-> <<"No feedback data provided">>,
           existing_content |->
              IF Truthy(existing_content)
              THEN Join(Take(existing_content.items, EXISTING_CONTENT_ROWS), <<"\n">>)
              ELSE <<"No existing content provided">>])

\* detect_from_searches, lines 99-102
DetectFromSearchesResult(result, zero_result_queries) ==
    IF result.cls = "dict"
    THEN LET d == DictSet(result.items, "total_queries_analyzed",
                          Len(zero_result_queries.items))
         IN  IF ValidGapDetectionResult(d)
             THEN Return(GapDetectionResult(d))
             ELSE Raise("ValidationError")
    ELSE Return(result)

DetectFromSearches(zero_result_queries, existing_content, reply) ==
    LET shaped == DetectFromSearchesPrompt(zero_result_queries, existing_content)
    IN  IF shaped.kind = "raise" THEN shaped
        ELSE IF reply.kind = "raise" THEN reply
        ELSE DetectFromSearchesResult(reply.value, zero_result_queries)

TICKET_DESCRIPTION_CHARS_FROM_TICKETS == 300

FromTicketsRow(t) ==
    <<"Ticket: ">> \o Get(t.items, "subject", <<"No subject">>) \o <<"\n">>
        \o <<"Category: ">> \o Get(t.items, "category", <<"Unknown">>) \o <<"\n">>
        \o <<"Description: ">>
        \o Take(Get(t.items, "description", <<>>),
                TICKET_DESCRIPTION_CHARS_FROM_TICKETS)

\* detect_from_tickets, lines 110-124
DetectFromTicketsPrompt(support_tickets, existing_content) ==
    LET ts == Take(support_tickets.items, TICKET_ROWS)
    IN  IF ~support_tickets.present THEN Raise("TypeError")
        ELSE IF ~AllDicts(ts) THEN Raise("AttributeError")
        ELSE Return(
          [search_queries |-> <<"No search data provided">>,
           support_tickets |->
              OrElse(Join(Rows(ts, TICKET_ROWS, FromTicketsRow), <<"\n\n">>),
                     <<"No ticket data available">>),
           user_feedback |-> <<"No feedback data provided">>,
           existing_content |->
              IF Truthy(existing_content)
              THEN Join(Take(existing_content.items, EXISTING_CONTENT_ROWS), <<"\n">>)
              ELSE <<"No existing content provided">>])

\* detect_from_tickets, lines 126-129
DetectFromTicketsResult(result, support_tickets) ==
    IF result.cls = "dict"
    THEN LET d == DictSet(result.items, "total_tickets_analyzed",
                          Len(support_tickets.items))
         IN  IF ValidGapDetectionResult(d)
             THEN Return(GapDetectionResult(d))
             ELSE Raise("ValidationError")
    ELSE Return(result)

DetectFromTickets(support_tickets, existing_content, reply) ==
    LET shaped == DetectFromTicketsPrompt(support_tickets, existing_content)
    IN  IF shaped.kind = "raise" THEN shaped
        ELSE IF reply.kind = "raise" THEN reply
        ELSE DetectFromTicketsResult(reply.value, support_tickets)

-----------------------------------------------------------------------------
(* app/agents/content_analyzer.py *)

QUALITY_CONTENT_CHARS == 3000
COVERAGE_ROWS == 30
COVERAGE_CONTENT_CHARS == 200
SUGGEST_EXISTING_ROWS == 10

ContentQualityFields ==
    {"content_id", "title", "completeness_score", "clarity_score",
     "accuracy_score", "freshness_score", "overall_score", "issues",
     "improvements"}

QualityScoreFields ==
    {"completeness_score", "clarity_score", "accuracy_score", "freshness_score",
     "overall_score"}

\* ContentQuality(**d): every field required, scores are plain floats
ValidContentQuality(d) == ContentQualityFields \subseteq DOMAIN d

ContentQuality(d) ==
    [f \in ContentQualityFields \cup {"cls"} |->
        IF f = "cls" THEN "ContentQuality" ELSE d[f]]

CoverageAnalysisFields ==
    {"total_topics", "covered_topics", "coverage_percentage", "well_covered",
     "partially_covered", "not_covered", "recommendations"}

\* CoverageAnalysis(**d): every field required, no cross-field validator
ValidCoverageAnalysis(d) == CoverageAnalysisFields \subseteq DOMAIN d

CoverageAnalysis(d) ==
    [f \in CoverageAnalysisFields \cup {"cls"} |->
        IF f = "cls" THEN "CoverageAnalysis" ELSE d[f]]

SuggestionRequired ==
    {"title", "summary", "outline", "priority", "target_audience",
     "estimated_effort"}

ValidContentSuggestionOutput(d) == SuggestionRequired \subseteq DOMAIN d

ContentSuggestionOutput(d) ==
    [f \in SuggestionRequired \cup {"seo_keywords", "related_content", "cls"} |->
        IF f = "cls" THEN "ContentSuggestionOutput" ELSE Get(d, f, <<>>)]

\* analyze_quality, lines 89-96
AnalyzeQualityPrompt(content) ==
    [title |-> Get(content, "title", <<"Untitled">>),
     content |-> Take(Get(content, "content", <<>>), QUALITY_CONTENT_CHARS),
     last_updated |-> Get(content, "last_updated", <<"Unknown">>),
     category |-> Get(content, "category", <<"Unknown">>)]

\* analyze_quality, lines 98-102
AnalyzeQualityResult(result, content) ==
    IF result.cls = "dict"
    THEN LET d == DictSet(DictSet(result.items,
                      "content_id", Get(content, "id", <<>>)),
                      "title", Get(content, "title", <<"Untitled">>))
         IN  IF ValidContentQuality(d)
             THEN Return(ContentQuality(d))
             ELSE Raise("ValidationError")
    ELSE Return(result)

AnalyzeQuality(content, reply) ==
    IF reply.kind = "raise" THEN reply
    ELSE AnalyzeQualityResult(reply.value, content)

CoverageRow(c) ==
    <<"- ">> \o Get(c, "title", <<"Untitled">>) \o <<": ">>
        \o Take(Get(c, "content", <<>>), COVERAGE_CONTENT_CHARS) \o <<"...">>

TopicRow(t) == <<"- ">> \o t

\* analyze_coverage, lines 133-143
AnalyzeCoveragePrompt(content_list, expected_topics) ==
    [existing_content |->
        Join(Rows(content_list, COVERAGE_ROWS, CoverageRow), <<"\n">>),
     expected_topics |->
        Join(Rows(expected_topics, Len(expected_topics), TopicRow), <<"\n">>)]

\* analyze_coverage, lines 145-147
AnalyzeCoverageResult(result) ==
    IF result.cls = "dict"
    THEN IF ValidCoverageAnalysis(result.items)
         THEN Return(CoverageAnalysis(result.items))
         ELSE Raise("ValidationError")
    ELSE Return(result)

AnalyzeCoverage(content_list, expected_topics, reply) ==
    IF reply.kind = "raise" THEN reply
    ELSE AnalyzeCoverageResult(reply.value)

\* suggest_content, lines 181-186
SuggestContentPrompt(gap_title, gap_description, existing_content) ==
    [gap_title |-> gap_title,
     gap_description |-> gap_description,
     existing_content |->
        IF Truthy(existing_content)
        THEN Join(Take(existing_content.items, SUGGEST_EXISTING_ROWS), <<"\n">>)
        ELSE <<"No related content">>]

\* suggest_content, lines 188-190
SuggestContentResult(result) ==
    IF result.cls = "dict"
    THEN IF ValidContentSuggestionOutput(result.items)
         THEN Return(ContentSuggestionOutput(result.items))
         ELSE Raise("ValidationError")
    ELSE Return(result)

SuggestContent(gap_title, gap_description, existing_content, reply) ==
    IF reply.kind = "raise" THEN reply
    ELSE SuggestContentResult(reply.value)

-----------------------------------------------------------------------------
(* app/agents/faq_generator.py *)

FAQ_TICKET_ROWS == 30
FAQ_TICKET_CHARS == 250
FAQ_QUERY_ROWS == 40
FAQ_DOC_ROWS == 10
FAQ_DOC_CHARS == 400

GeneratedFAQFields ==
    {"question", "answer", "category", "confidence_score", "source_summary",
     "related_questions", "tags"}

\* GeneratedFAQ(**f): every field required, confidence_score a plain float
ValidGeneratedFAQ(f) == GeneratedFAQFields \subseteq DOMAIN f

GeneratedFAQ(f) ==
    [k \in GeneratedFAQFields \cup {"cls"} |->
        IF k = "cls" THEN "GeneratedFAQ" ELSE f[k]]

\* FAQGenerationResult(**d): every field has a default
ValidFAQGenerationResult(d) ==
    \A i \in 1..Len(Get(d, "faqs", <<>>)) : ValidGeneratedFAQ(d["faqs"][i])

FAQGenerationResult(d) ==
    [cls |-> "FAQGenerationResult",
     faqs |-> [i \in 1..Len(Get(d, "faqs", <<>>)) |-> GeneratedFAQ(d["faqs"][i])],
     total_sources_analyzed |-> Get(d, "total_sources_analyzed", 0),
     categories_covered |-> Get(d, "categories_covered", <<>>),
     generation_summary |-> Get(d, "generation_summary", <<>>)]

FaqTicketRow(t) ==
    <<"Subject: ">> \o Get(t.items, "subject", <<"No subject">>) \o <<"\n">>
        \o <<"Question: ">>
        \o Take(Get(t.items, "description", <<>>), FAQ_TICKET_CHARS) \o <<"\n">>
        \o <<"Resolution: ">>
        \o Take(Get(t.items, "resolution", <<"Not provided">>), FAQ_TICKET_CHARS)

FaqDocRow(d) ==
    <<"Title: ">> \o Get(d, "title", <<"Untitled">>) \o <<"\n">>
        \o <<"Content: ">> \o Take(Get(d, "content", <<>>), FAQ_DOC_CHARS)

\* generate, lines 139-169
GeneratePrompt(tickets, queries, documentation) ==
    LET ts == Take(tickets.items, FAQ_TICKET_ROWS)
        qs == Take(queries.items, FAQ_QUERY_ROWS)
        ds == Take(documentation.items, FAQ_DOC_ROWS)
    IN  IF ~(AllDicts(ts) /\ AllDicts(qs))
        THEN Raise("AttributeError")
        ELSE Return(
          [tickets |->
              OrElse(Join(Rows(ts, FAQ_TICKET_ROWS, FaqTicketRow), <<"\n\n">>),
                     <<"No ticket data available">>),
           queries |->
              OrElse(Join(Rows(qs, FAQ_QUERY_ROWS, QueryRow), <<"\n">>),
                     <<"No query data available">>),
           documentation |->
              OrElse(Join(Rows(ds, FAQ_DOC_ROWS, FaqDocRow), <<"\n\n">>),
                     <<"No existing documentation">>)])

\* generate, lines 171-174
GenerateResult(result, tickets, queries) ==
    IF result.cls = "dict"
    THEN LET d == DictSet(result.items, "total_sources_analyzed",
                          LenOrZero(tickets) + LenOrZero(queries))
         IN  IF ValidFAQGenerationResult(d)
             THEN Return(FAQGenerationResult(d))
             ELSE Raise("ValidationError")
    ELSE Return(result)

Generate(tickets, queries, documentation, reply) ==
    LET shaped == GeneratePrompt(tickets, queries, documentation)
    IN  IF shaped.kind = "raise" THEN shaped
        ELSE IF reply.kind = "raise" THEN reply
        ELSE GenerateResult(reply.value, tickets, queries)

\* the feedback of the preceding improve_faq call kept on the agent and
\* sent again
ImproveFaqPromptRemembering(question, current_answer, feedback) ==
    [question |-> question,
     current_answer |-> current_answer,
     feedback |->
        (IF call.op = "improve_faq" /\ call.prompt.kind = "return"
         THEN call.prompt.value.feedback \o <<"\n">> ELSE <<>>)
        \o (IF Truthy(feedback) THEN Join(feedback.items, <<"\n">>)
            ELSE <<"No specific feedback">>)]

\* improve_faq, lines 207-212
ImproveFaqPrompt(question, current_answer, feedback) ==
    [question |-> question,
     current_answer |-> current_answer,
     feedback |-> IF Truthy(feedback) THEN Join(feedback.items, <<"\n">>)
                  ELSE <<"No specific feedback">>]

\* improve_faq, lines 214-216
ImproveFaqResult(result) ==
    IF result.cls = "dict"
    THEN IF ValidGeneratedFAQ(result.items)
         THEN Return(GeneratedFAQ(result.items))
         ELSE Raise("ValidationError")
    ELSE Return(result)

ImproveFaq(question, current_answer, feedback, reply) ==
    IF reply.kind = "raise" THEN reply
    ELSE ImproveFaqResult(reply.value)

FAQ_FROM_TICKETS_ROWS == 40
FAQ_FROM_TICKETS_CHARS == 300
FAQ_FROM_QUERIES_ROWS == 50
FAQ_FROM_QUERIES_DOC_CHARS == 500

FromTicketsFaqRow(t) ==
    <<"Subject: ">> \o Get(t.items, "subject", <<"No subject">>) \o <<"\n">>
        \o <<"Question: ">>
        \o Take(Get(t.items, "description", <<>>), FAQ_FROM_TICKETS_CHARS) \o <<"\n">>
        \o <<"Resolution: ">>
        \o Take(Get(t.items, "resolution", <<"Not provided">>), FAQ_FROM_TICKETS_CHARS)

\* generate_from_tickets, lines 80-93
GenerateFromTicketsPrompt(tickets, existing_docs) ==
    LET ts == Take(tickets.items, FAQ_FROM_TICKETS_ROWS)
    IN  IF ~tickets.present THEN Raise("TypeError")
        ELSE IF ~AllDicts(ts) THEN Raise("AttributeError")
        ELSE Return(
          [tickets |->
              OrElse(Join(Rows(ts, FAQ_FROM_TICKETS_ROWS, FromTicketsFaqRow), <<"\n\n">>),
                     <<"No ticket data available">>),
           queries |-> <<"No query data provided">>,
           documentation |->
              IF Truthy(existing_docs)
              THEN Join(Take(existing_docs.items, FAQ_DOC_ROWS), <<"\n">>)
              ELSE <<"No existing documentation">>])

\* generate_from_tickets, lines 95-98
GenerateFromTicketsResult(result, tickets) ==
    IF result.cls = "dict"
    THEN LET d == DictSet(result.items, "total_sources_analyzed", Len(tickets.items))
         IN  IF ValidFAQGenerationResult(d)
             THEN Return(FAQGenerationResult(d))
             ELSE Raise("ValidationError")
    ELSE Return(result)

GenerateFromTickets(tickets, existing_docs, reply) ==
    LET shaped == GenerateFromTicketsPrompt(tickets, existing_docs)
    IN  IF shaped.kind = "raise" THEN shaped
        ELSE IF reply.kind = "raise" THEN reply
        ELSE GenerateFromTicketsResult(reply.value, tickets)

AskedRow(q) ==
    <<"- \"">> \o Get(q.items, "query", Repr(q)) \o <<"\" (asked ">>
        \o IntText(Get(q.items, "count", 1)) \o <<" times)">>

FromQueriesDocRow(d) ==
    <<"Title: ">> \o Get(d, "title", <<"Untitled">>) \o <<"\n">>
        \o <<"Content: ">> \o Take(Get(d, "content", <<>>), FAQ_FROM_QUERIES_DOC_CHARS)

\* generate_from_queries, lines 106-125
GenerateFromQueriesPrompt(queries, documentation) ==
    LET qs == Take(queries.items, FAQ_FROM_QUERIES_ROWS)
        ds == Take(documentation.items, FAQ_DOC_ROWS)
    IN  IF ~queries.present THEN Raise("TypeError")
        ELSE IF ~AllDicts(qs) THEN Raise("AttributeError")
        ELSE Return(
          [tickets |-> <<"No ticket data provided">>,
           queries |->
              OrElse(Join(Rows(qs, FAQ_FROM_QUERIES_ROWS, AskedRow), <<"\n">>),
                     <<"No query data available">>),
           documentation |->
              OrElse(Join(Rows(ds, FAQ_DOC_ROWS, FromQueriesDocRow), <<"\n\n">>),
                     <<"No existing documentation">>)])

\* generate_from_queries, lines 127-130
GenerateFromQueriesResult(result, queries) ==
    IF result.cls = "dict"
    THEN LET d == DictSet(result.items, "total_sources_analyzed", Len(queries.items))
         IN  IF ValidFAQGenerationResult(d)
             THEN Return(FAQGenerationResult(d))
             ELSE Raise("ValidationError")
    ELSE Return(result)

GenerateFromQueries(queries, documentation, reply) ==
    LET shaped == GenerateFromQueriesPrompt(queries, documentation)
    IN  IF shaped.kind = "raise" THEN shaped
        ELSE IF reply.kind = "raise" THEN reply
        ELSE GenerateFromQueriesResult(reply.value, queries)

-----------------------------------------------------------------------------
(* app/agents/orchestrator.py *)

SUGGESTION_GAPS == 5

\* AnalysisReport.__init__, lines 15-26
AnalysisReport ==
    [gaps_found |-> 0, faqs_generated |-> 0, suggestions_created |-> 0,
     coverage_score |-> 0, gaps |-> <<>>, faqs |-> <<>>, suggestions |-> <<>>,
     summary |-> <<>>, duration_seconds |-> 0]

\* f"{x:.1f}" of a float held in tenths
Fixed1(x) ==
    IF x < 0 THEN <<"-", ToString((-x) \div 10), ".", ToString((-x) % 10)>>
    ELSE <<ToString(x \div 10), ".", ToString(x % 10)>>

\* the critical gaps counted among the first five only
CountCriticalTopFive(gaps) ==
    Cardinality({i \in 1..Min(Len(gaps), 5) : gaps[i]["priority"] = "critical"})

RECURSIVE CountCritical(_)
CountCritical(gaps) ==
    IF gaps = <<>> THEN 0
    ELSE (IF gaps[1]["priority"] = "critical" THEN 1 ELSE 0)
         + CountCritical(Tail(gaps))

\* _generate_summary, lines 141-162: the parts that are joined by " "
SummaryParts(rep) ==
    <<  <<"Analysis completed in ">> \o Fixed1(rep.duration_seconds)
            \o <<" seconds.">>,
        <<"Identified ", ToString(rep.gaps_found), " knowledge gaps.">> >>
    \o (IF rep.faqs_generated # 0
        THEN << <<"Generated ", ToString(rep.faqs_generated), " FAQs.">> >>
        ELSE <<>>)
    \o (IF rep.suggestions_created # 0
        THEN << <<"Created ", ToString(rep.suggestions_created),
                  " content suggestions.">> >>
        ELSE <<>>)
    \o (IF rep.coverage_score # 0
        THEN << <<"Current coverage: ">> \o Fixed1(rep.coverage_score)
                \o <<"%.">> >>
        ELSE <<>>)
    \o (IF CountCritical(rep.gaps) # 0
        THEN << <<"ATTENTION: ", ToString(CountCritical(rep.gaps)),
                  " critical gaps require immediate attention.">> >>
        ELSE <<>>)

GenerateSummary(rep) == Join(SummaryParts(rep), <<" ">>)

\* line 53
ContentTitles(existing_content) ==
    IF Truthy(existing_content)
    THEN List([i \in 1..Len(existing_content.items) |->
                 Get(existing_content.items[i], "title", <<>>)])
    ELSE List(<<>>)

\* the coverage stage entered when either of the two lists is non-empty
RunsCoverageEither(in) == Truthy(in.expected_topics) \/ Truthy(in.existing_content)

\* line 65
RunsCoverage(in) == Truthy(in.expected_topics) /\ Truthy(in.existing_content)

\* the FAQ stage entered on the flag alone
RunsFaqsOnFlag(in) == in.generate_faqs

\* line 73
RunsFaqs(in) == in.generate_faqs /\ Truthy(in.support_tickets)

\* the "top 5" taken after moving the critical gaps to the front
SuggestionGapsByPriority(gaps) ==
    Take(SelectSeq(gaps, LAMBDA g : g["priority"] = "critical")
         \o SelectSeq(gaps, LAMBDA g : g["priority"] # "critical"),
         SUGGESTION_GAPS)

\* line 84: the gaps the suggestion loop iterates over
SuggestionGaps(gaps) == Take(gaps, SUGGESTION_GAPS)

NoError == "none"

\* the exception caught and logged, the run going on to return its report
FailSwallowed(error) ==
    /\ pc' = "S5"
    /\ raised' = NoError

\* the exception caught and the run started over, once
FailRetried(error) ==
    IF Len(calls) < 2
    THEN pc' = "S1" /\ raised' = NoError
    ELSE pc' = "failed" /\ raised' = error

\* an exception leaves run_full_analysis: no report is returned
Fail(error) ==
    /\ pc' = "failed"
    /\ raised' = error

-----------------------------------------------------------------------------
(* The environment of one run: the caller's arguments and what the          *)
(* completion service plus JSON parser hand back.                           *)

MaxGaps == 6
MaxFaqs == 1
MaxDuration == 1

Query1 == Dict([query |-> <<"export data">>, count |-> 2])
Ticket1 == Dict([subject |-> <<"Cannot export">>, description |-> <<"c", "s", "v">>])
Content1 == [id |-> <<"c1">>, title |-> <<"Billing FAQ">>, content |-> <<"b">>]

GapLow ==
    [title |-> <<"Export workflow undocumented">>, description |-> <<"no doc">>,
     topic |-> <<"export">>, priority |-> "low", evidence |-> <<>>,
     search_queries |-> <<>>, impact_score |-> 3, suggested_content |-> <<>>]

GapCritical ==
    [title |-> <<"Password reset broken">>, description |-> <<"blocked">>,
     topic |-> <<"security">>, priority |-> "critical", evidence |-> <<>>,
     search_queries |-> <<>>, impact_score |-> 9, suggested_content |-> <<>>]

GapHigh ==
    [title |-> <<"Data export undocumented">>, description |-> <<"no guide">>,
     topic |-> <<"export">>, priority |-> "high", evidence |-> <<>>,
     search_queries |-> <<>>, impact_score |-> 7, suggested_content |-> <<>>]

GapSeqs == UNION {[1..k -> {GapLow, GapCritical}] : k \in 0..MaxGaps}

Faq1 ==
    [question |-> <<"How to export?">>, answer |-> <<"Use the menu">>,
     category |-> <<"export">>, confidence_score |-> 8,
     source_summary |-> <<>>, related_questions |-> <<>>, tags |-> <<>>]

Suggestion(t) ==
    [title |-> t, summary |-> <<>>, outline |-> <<>>, priority |-> "high",
     target_audience |-> <<"users">>, estimated_effort |-> <<"low">>]

Coverage(total, covered, pct) ==
    [total_topics |-> total, covered_topics |-> covered,
     coverage_percentage |-> pct, well_covered |-> <<>>,
     partially_covered |-> <<>>, not_covered |-> <<>>, recommendations |-> <<>>]

\* a list of plain-string queries
StringQueries ==
    <<StrItem(<<"reset password">>), StrItem(<<"export data">>),
      StrItem(<<"export data">>)>>

RunInputs ==
    [search_queries : {NoneList, List(<<Query1>>), List(StringQueries)},
     support_tickets : {NoneList, List(<<Ticket1>>)},
     user_feedback : {NoneList},
     existing_content : {NoneList, List(<<Content1>>)},
     expected_topics : {NoneList, List(<< <<"billing">>, <<"security">> >>)},
     generate_faqs : BOOLEAN,
     generate_suggestions : BOOLEAN]

ServiceErrors == {"UpstreamServiceError", "OutputParserException"}

RunDetectReplies ==
    {Raise(e) : e \in ServiceErrors}
    \cup {Return(Dict([gaps |-> g, analysis_summary |-> <<"ok">>,
                       total_queries_analyzed |-> 7])) : g \in GapSeqs}
    \cup {Return(Dict([gaps |-> <<GapHigh>>, analysis_summary |-> <<"ok">>]))}
    \cup {Return(Dict([gaps |-> <<>>])), Return([cls |-> "list"])}

RunCoverageReplies ==
    {Raise("UpstreamServiceError"),
     Return(Dict(Coverage(2, 1, 500))),
     Return(Dict(Coverage(2, 0, 0))),
     Return(Dict([coverage_percentage |-> 500]))}

RunFaqReplies ==
    {Raise("UpstreamServiceError")}
    \cup {Return(Dict([faqs |-> f])) : f \in UNION {[1..k -> {Faq1}] : k \in 0..MaxFaqs}}

\* what the service may answer to one suggest_content prompt: a failure, a
\* suggestion written for the gap named in the prompt, or a mapping that
\* lacks required fields
RunSuggestionReplies(prompt) ==
    {Raise("UpstreamServiceError"),
     Return(Dict(Suggestion(<<"Guide: ">> \o prompt.gap_title))),
     Return(Dict([title |-> <<"Guide">>]))}

\* what the service answers while two runs are in flight: a smaller sample of
\* the same kinds of answer
ConcurrentDetectReplies ==
    {Raise("UpstreamServiceError"),
     Return(Dict([gaps |-> <<GapLow>>, analysis_summary |-> <<"ok">>])),
     Return(Dict([gaps |-> <<GapCritical, GapLow>>,
                  analysis_summary |-> <<"ok">>]))}

ConcurrentCoverageReplies ==
    {Return(Dict(Coverage(2, 1, 500))), Return(Dict(Coverage(2, 0, 0)))}

ConcurrentFaqReplies ==
    {Return(Dict([faqs |-> <<Faq1>>])), Return(Dict([faqs |-> <<>>]))}

ConcurrentSuggestionReplies(prompt) ==
    {Return(Dict(Suggestion(<<"Guide: ">> \o prompt.gap_title)))}

Unset == [cls |-> "unset"]

\* the answers the service may give to the run that is executing
ServiceDetectReplies ==
    IF parked = Unset THEN RunDetectReplies ELSE ConcurrentDetectReplies

ServiceCoverageReplies ==
    IF parked = Unset THEN RunCoverageReplies ELSE ConcurrentCoverageReplies

ServiceFaqReplies ==
    IF parked = Unset THEN RunFaqReplies ELSE ConcurrentFaqReplies

ServiceSuggestionReplies(prompt) ==
    IF parked = Unset THEN RunSuggestionReplies(prompt)
    ELSE ConcurrentSuggestionReplies(prompt)

-----------------------------------------------------------------------------
(* run_full_analysis as a state machine *)

\* no request has been made and no row is stored
InitRequests ==
    /\ uuids = 0
    /\ db = [analysis_reports |-> <<>>, gaps |-> <<>>, faqs |-> <<>>]
    /\ route = [at |-> "idle"]
    /\ votes = <<>>
    /\ response = Unset

InitRun ==
    /\ pc = "idle"
    /\ inp = Unset
    /\ report = Unset
    /\ gap_result = Unset
    /\ content_titles = Unset
    /\ outstanding = 0
    /\ calls = <<>>
    /\ returns = <<>>
    /\ raised = NoError

\* lines 49-50: the caller invokes run_full_analysis
Start ==
    /\ pc = "idle"
    /\ \E in \in RunInputs : inp' = in
    /\ report' = AnalysisReport
    /\ pc' = "S1"
    /\ UNCHANGED <<gap_result, content_titles, outstanding, calls, returns,
                   raised, call, prev>>
    /\ UNCHANGED <<parked, uuids, apiVars>>

\* lines 53-59: shape the detector's prompt and await the chain
S1Issue ==
    /\ pc = "S1"
    /\ content_titles' = ContentTitles(inp.existing_content)
    /\ LET shaped == DetectPrompt(inp.search_queries, inp.support_tickets,
                                  inp.user_feedback, content_titles')
       IN  IF shaped.kind = "raise"
           THEN /\ Fail(shaped.error)
                /\ UNCHANGED <<outstanding, calls>>
           ELSE /\ calls' = Append(calls, [op |-> "detect", prompt |-> shaped.value])
                /\ outstanding' = outstanding + 1
                /\ pc' = "S1_await"
                /\ UNCHANGED raised
    /\ UNCHANGED <<inp, report, gap_result, returns, call, prev>>
    /\ UNCHANGED <<parked, uuids, apiVars>>

\* the gaps stored with the critical ones moved to the front
ReportedGapsByPriority(result) ==
    SelectSeq(result.gaps, LAMBDA g : g["priority"] = "critical")
        \o SelectSeq(result.gaps, LAMBDA g : g["priority"] # "critical")

\* line 61
ReportedGaps(result) == result.gaps

\* line 62
GapsFound(result) == Len(result.gaps)

\* lines 54-62: the chain returns, detect post-processes, the report is filled
S1Return ==
    /\ pc = "S1_await"
    /\ outstanding' = outstanding - 1
    /\ \E reply \in ServiceDetectReplies :
         LET out == Detect(inp.search_queries, inp.support_tickets,
                           inp.user_feedback, content_titles, reply)
         IN  /\ returns' = Append(returns, [op |-> "detect", outcome |-> out,
                                             reply |-> reply])
             /\ IF out.kind = "raise"
                THEN /\ Fail(out.error)
                     /\ UNCHANGED <<gap_result, report>>
                ELSE IF out.value.cls # "GapDetectionResult"
                THEN /\ Fail("AttributeError")
                     /\ gap_result' = out.value
                     /\ UNCHANGED report
                ELSE /\ gap_result' = out.value
                     /\ report' = [report EXCEPT !.gaps = ReportedGaps(out.value),
                                                 !.gaps_found = GapsFound(out.value)]
                     /\ pc' = "S2"
                     /\ UNCHANGED raised
    /\ UNCHANGED <<inp, content_titles, calls, call, prev>>
    /\ UNCHANGED <<parked, uuids, apiVars>>

\* lines 65-69, condition true: await analyze_coverage
S2Issue ==
    /\ pc = "S2"
    /\ RunsCoverage(inp)
    /\ calls' = Append(calls,
          [op |-> "analyze_coverage",
           prompt |-> AnalyzeCoveragePrompt(inp.existing_content.items,
                                            inp.expected_topics.items)])
    /\ outstanding' = outstanding + 1
    /\ pc' = "S2_await"
    /\ UNCHANGED <<inp, report, gap_result, content_titles, returns, raised, call, prev>>
    /\ UNCHANGED <<parked, uuids, apiVars>>

\* line 65, condition false
S2Skip ==
    /\ pc = "S2"
    /\ ~RunsCoverage(inp)
    /\ pc' = "S3"
    /\ UNCHANGED <<inp, report, gap_result, content_titles, outstanding, calls,
                   returns, raised, call, prev>>
    /\ UNCHANGED <<parked, uuids, apiVars>>

\* lines 66-70
S2Return ==
    /\ pc = "S2_await"
    /\ outstanding' = outstanding - 1
    /\ \E reply \in ServiceCoverageReplies :
         LET out == AnalyzeCoverage(inp.existing_content.items,
                                    inp.expected_topics.items, reply)
         IN  /\ returns' = Append(returns, [op |-> "analyze_coverage", outcome |-> out,
                                             reply |-> reply])
             /\ IF out.kind = "raise"
                THEN /\ Fail(out.error)
                     /\ UNCHANGED report
                ELSE IF out.value.cls # "CoverageAnalysis"
                THEN /\ Fail("AttributeError")
                     /\ UNCHANGED report
                ELSE /\ report' = [report EXCEPT
                                     !.coverage_score = out.value.coverage_percentage]
                     /\ pc' = "S3"
                     /\ UNCHANGED raised
    /\ UNCHANGED <<inp, gap_result, content_titles, calls, call, prev>>
    /\ UNCHANGED <<parked, uuids, apiVars>>

\* lines 73-78, condition true: shape the prompt and await generate
S3Issue ==
    /\ pc = "S3"
    /\ RunsFaqs(inp)
    /\ LET shaped == GeneratePrompt(inp.support_tickets, inp.search_queries,
                                    inp.existing_content)
       IN  IF shaped.kind = "raise"
           THEN /\ Fail(shaped.error)
                /\ UNCHANGED <<outstanding, calls>>
           ELSE /\ calls' = Append(calls, [op |-> "generate", prompt |-> shaped.value])
                /\ outstanding' = outstanding + 1
                /\ pc' = "S3_await"
                /\ UNCHANGED raised
    /\ UNCHANGED <<inp, report, gap_result, content_titles, returns, call, prev>>
    /\ UNCHANGED <<parked, uuids, apiVars>>

\* line 73, condition false
S3Skip ==
    /\ pc = "S3"
    /\ ~RunsFaqs(inp)
    /\ pc' = "S4"
    /\ UNCHANGED <<inp, report, gap_result, content_titles, outstanding, calls,
                   returns, raised, call, prev>>
    /\ UNCHANGED <<parked, uuids, apiVars>>

\* line 80
FaqsGenerated(result) == Len(result.faqs)

\* lines 74-80
S3Return ==
    /\ pc = "S3_await"
    /\ outstanding' = outstanding - 1
    /\ \E reply \in ServiceFaqReplies :
         LET out == Generate(inp.support_tickets, inp.search_queries,
                             inp.existing_content, reply)
         IN  /\ returns' = Append(returns, [op |-> "generate", outcome |-> out,
                                             reply |-> reply])
             /\ IF out.kind = "raise"
                THEN /\ Fail(out.error)
                     /\ UNCHANGED report
                ELSE IF out.value.cls # "FAQGenerationResult"
                THEN /\ Fail("AttributeError")
                     /\ UNCHANGED report
                ELSE /\ report' = [report EXCEPT
                                     !.faqs = out.value.faqs,
                                     !.faqs_generated = FaqsGenerated(out.value)]
                     /\ pc' = "S4"
                     /\ UNCHANGED raised
    /\ UNCHANGED <<inp, gap_result, content_titles, calls, call, prev>>
    /\ UNCHANGED <<parked, uuids, apiVars>>

\* the position of the for loop of line 84: one suggestion is appended per
\* completed iteration
LoopIndex == Len(report.suggestions) + 1

\* the per-gap calls fanned out without awaiting each one
S4IssueFanOut ==
    /\ pc = "S4"
    /\ inp.generate_suggestions
    /\ LoopIndex <= Len(SuggestionGaps(gap_result.gaps))
    /\ LET gaps == SuggestionGaps(gap_result.gaps)
           new == [i \in 1..(Len(gaps) - LoopIndex + 1) |->
                     [op |-> "suggest_content",
                      prompt |-> SuggestContentPrompt(
                         gaps[LoopIndex + i - 1]["title"],
                         gaps[LoopIndex + i - 1]["description"],
                         List(Take(content_titles.items, SUGGEST_EXISTING_ROWS)))]]
       IN  /\ calls' = calls \o new
           /\ outstanding' = outstanding + Len(new)
    /\ pc' = "S4_await"
    /\ UNCHANGED <<inp, report, gap_result, content_titles, returns, raised, call, prev>>
    /\ UNCHANGED <<parked, uuids, apiVars>>

\* lines 84-89: the next iteration of the loop awaits suggest_content
S4Issue ==
    /\ pc = "S4"
    /\ inp.generate_suggestions
    /\ LoopIndex <= Len(SuggestionGaps(gap_result.gaps))
    /\ LET gap == SuggestionGaps(gap_result.gaps)[LoopIndex]
       IN  calls' = Append(calls,
              [op |-> "suggest_content",
               prompt |-> SuggestContentPrompt(gap["title"], gap["description"],
                             List(Take(content_titles.items, SUGGEST_EXISTING_ROWS)))])
    /\ outstanding' = outstanding + 1
    /\ pc' = "S4_await"
    /\ UNCHANGED <<inp, report, gap_result, content_titles, returns, raised, call, prev>>
    /\ UNCHANGED <<parked, uuids, apiVars>>

\* lines 85-90: the awaited suggestion is appended
S4Return ==
    /\ pc = "S4_await"
    /\ outstanding' = outstanding - 1
    /\ \E reply \in ServiceSuggestionReplies(calls[Len(calls)].prompt) :
         LET gap == SuggestionGaps(gap_result.gaps)[LoopIndex]
             out == SuggestContent(gap["title"], gap["description"],
                       List(Take(content_titles.items, SUGGEST_EXISTING_ROWS)), reply)
         IN  /\ returns' = Append(returns, [op |-> "suggest_content", outcome |-> out,
                                             reply |-> reply])
             /\ IF out.kind = "raise"
                THEN /\ Fail(out.error)
                     /\ UNCHANGED report
                ELSE /\ report' = [report EXCEPT
                                     !.suggestions = Append(@, out.value)]
                     /\ pc' = "S4"
                     /\ UNCHANGED raised
    /\ UNCHANGED <<inp, gap_result, content_titles, calls, call, prev>>
    /\ UNCHANGED <<parked, uuids, apiVars>>

\* a count taken from the wrong sequence
SuggestionsCreatedFromGaps(rep) == Len(rep.gaps)

\* line 91
SuggestionsCreated(rep) == Len(rep.suggestions)

\* line 91: the loop is exhausted
S4Done ==
    /\ pc = "S4"
    /\ inp.generate_suggestions
    /\ LoopIndex > Len(SuggestionGaps(gap_result.gaps))
    /\ report' = [report EXCEPT !.suggestions_created = SuggestionsCreated(report)]
    /\ pc' = "S5"
    /\ UNCHANGED <<inp, gap_result, content_titles, outstanding, calls, returns,
                   raised, call, prev>>
    /\ UNCHANGED <<parked, uuids, apiVars>>

\* line 83, condition false
S4Skip ==
    /\ pc = "S4"
    /\ ~inp.generate_suggestions
    /\ pc' = "S5"
    /\ UNCHANGED <<inp, report, gap_result, content_titles, outstanding, calls,
                   returns, raised, call, prev>>
    /\ UNCHANGED <<parked, uuids, apiVars>>

\* lines 94-97: the summary is composed, then the duration is stored, and the
\* report is returned; elapsed is time.time() - start_time in tenths
S5Finalize ==
    /\ pc = "S5"
    /\ \E elapsed \in 1..MaxDuration :
         report' = [report EXCEPT !.summary = GenerateSummary(report),
                                  !.duration_seconds = elapsed]
    /\ pc' = "done"
    /\ UNCHANGED <<inp, gap_result, content_titles, outstanding, calls, returns,
                   raised, call, prev>>
    /\ UNCHANGED <<parked, uuids, apiVars>>

NextRun ==
    \/ Start
    \/ S1Issue \/ S1Return
    \/ S2Issue \/ S2Skip \/ S2Return
    \/ S3Issue \/ S3Skip \/ S3Return
    \/ S4Issue \/ S4Return \/ S4Done \/ S4Skip
    \/ S5Finalize

NoCall == [op |-> "none"]

Init == InitRun /\ call = NoCall /\ prev = NoCall /\ parked = Unset /\ InitRequests

Spec == Init /\ [][NextRun]_vars

-----------------------------------------------------------------------------
(* Properties of run_full_analysis, checked under Spec *)

CallsOf(op) == SelectSeq(calls, LAMBDA c : c.op = op)
ReturnsOf(op) == SelectSeq(returns, LAMBDA r : r.op = op)

\* C1: in every completed run the three count fields of the report equal the
\* lengths of the three result sequences
C1_CountsEqualLengths ==
    pc = "done" =>
        /\ report.gaps_found = Len(report.gaps)
        /\ report.faqs_generated = Len(report.faqs)
        /\ report.suggestions_created = Len(report.suggestions)

\* a completed run with more gaps than suggestions, and with FAQs
C1_Witness ==
    /\ pc = "done"
    /\ Len(report.gaps) = 6
    /\ Len(report.suggestions) = 5
    /\ Len(report.faqs) = 1

StageOf(p) ==
    CASE p = "idle" -> 0
      [] p \in {"S1", "S1_await"} -> 1
      [] p \in {"S2", "S2_await"} -> 2
      [] p \in {"S3", "S3_await"} -> 3
      [] p \in {"S4", "S4_await"} -> 4
      [] p = "S5" -> 5
      [] p = "done" -> 6
      [] p = "failed" -> 7

\* C2: the stages run in the order S1..S5, none twice, none after a later
\* one; a call is issued only when no call is outstanding, so at most one
\* completion-service call is outstanding at any moment
C2_StagesStrictlyOrdered ==
    /\ [](outstanding \in {0, 1})
    /\ [](/\ Len(CallsOf("detect")) <= 1
          /\ Len(CallsOf("analyze_coverage")) <= 1
          /\ Len(CallsOf("generate")) <= 1)
    /\ [][/\ StageOf(pc') >= StageOf(pc)
          /\ Len(calls') > Len(calls) =>
                /\ outstanding = 0
                /\ Len(calls') = Len(calls) + 1
                /\ Len(returns) = Len(calls)]_vars

\* a completed run in which every stage ran and S4 made five calls
C2_Witness ==
    /\ pc = "done"
    /\ Len(CallsOf("detect")) = 1
    /\ Len(CallsOf("analyze_coverage")) = 1
    /\ Len(CallsOf("generate")) = 1
    /\ Len(CallsOf("suggest_content")) = 5

\* C3: with generate_suggestions set, suggest_content is invoked once for each
\* of the first min(5, n) gaps S1 returned, in S1's order, and the report holds
\* the results in that order; without the flag it is never invoked
C3_SuggestionsFollowGapOrder ==
    pc \in {"S2", "S2_await", "S3", "S3_await", "S4", "S4_await", "S5", "done"} =>
        LET gaps == returns[1].outcome.value.gaps
            sc == CallsOf("suggest_content")
            sr == ReturnsOf("suggest_content")
            n == IF Len(gaps) < 5 THEN Len(gaps) ELSE 5
        IN  /\ Len(sc) <= n
            /\ \A i \in 1..Len(sc) :
                  /\ sc[i].prompt.gap_title = gaps[i]["title"]
                  /\ sc[i].prompt.gap_description = gaps[i]["description"]
            /\ \A i \in 1..Len(report.suggestions) :
                  /\ sr[i].outcome.kind = "return"
                  /\ report.suggestions[i] = sr[i].outcome.value
            /\ ~inp.generate_suggestions =>
                  Len(sc) = 0 /\ report.suggestions = <<>>
            /\ pc = "done" /\ inp.generate_suggestions =>
                  Len(sc) = n /\ Len(report.suggestions) = n

\* a completed run over six gaps whose S1 order is not priority order
C3_Witness ==
    /\ pc = "done"
    /\ inp.generate_suggestions
    /\ Len(gap_result.gaps) = 6
    /\ gap_result.gaps[1]["priority"] = "low"
    /\ gap_result.gaps[6]["priority"] = "critical"
    /\ Len(report.suggestions) = 5

-----------------------------------------------------------------------------
(* The analyzer operations invoked on their own: the caller's arguments and  *)
(* what the awaited chain hands back.                                        *)

Query2 == Dict([query |-> <<"reset password">>])
Feedback1 == Dict([feedback |-> <<"docs are thin">>])

LongQueries(n) == [i \in 1..n |-> Dict([query |-> <<"q", ToString(i)>>, count |-> 1])]
LongTickets(n) ==
    [i \in 1..n |-> Dict([subject |-> <<"s", ToString(i)>>, description |-> <<"d">>])]

AgentQueryLists ==
    {NoneList, List(<<>>), List(<<Query1>>), List(<<Query1, Query2>>),
     List(<<StrItem(<<"reset password">>)>>), List(LongQueries(QUERY_ROWS + 1))}

AgentTicketLists ==
    {NoneList, List(<<Ticket1>>), List(LongTickets(TICKET_ROWS + 1))}

AgentFeedbackLists == {NoneList, List(<<Feedback1>>)}

AgentTitleLists == {NoneList, List(<< <<"Billing FAQ">> >>)}

\* gaps as the service may state them: a score of 1.5, a priority outside the
\* documented four, a gap without its score
GapHot == [GapLow EXCEPT !["impact_score"] = 15]
GapUrgent == [GapLow EXCEPT !["priority"] = "urgent"]
GapNoScore == [f \in DetectedGapFields \ {"impact_score"} |-> GapLow[f]]

StatedGaps == {<<>>, <<GapLow>>, <<GapCritical, GapLow>>, <<GapHot>>, <<GapUrgent>>,
               <<GapNoScore>>}

AgentDetectReplies ==
    {Raise(e) : e \in ServiceErrors}
    \cup {Return(Dict([gaps |-> g, analysis_summary |-> <<"ok">>])) : g \in StatedGaps}
    \cup {Return(Dict([gaps |-> g, analysis_summary |-> <<"ok">>,
                       total_queries_analyzed |-> 7,
                       total_tickets_analyzed |-> 9])) : g \in StatedGaps}
    \cup {Return(Dict([gaps |-> <<GapLow>>]))}
    \cup {Return(GapDetectionResult(
                    [gaps |-> <<GapLow>>, analysis_summary |-> <<"ok">>,
                     total_queries_analyzed |-> 7, total_tickets_analyzed |-> 9]))}
    \cup {Return(v) : v \in OtherJson}

\* each behaviour of SpecAgents is one invocation of one operation on a
\* freshly constructed agent
InitAgents ==
    /\ InitRun
    /\ call = NoCall
    /\ prev = NoCall
    /\ parked = Unset
    /\ InitRequests

\* GapDetectorAgent.detect, lines 131-174
CallDetect ==
    /\ call.op = "none"
    /\ \E sq \in AgentQueryLists, st \in AgentTicketLists,
          uf \in AgentFeedbackLists, ec \in AgentTitleLists,
          reply \in AgentDetectReplies :
         call' = [op |-> "detect",
                  args |-> [search_queries |-> sq, support_tickets |-> st,
                            user_feedback |-> uf, existing_content |-> ec],
                  prompt |-> DetectPrompt(sq, st, uf, ec),
                  reply |-> reply,
                  outcome |-> Detect(sq, st, uf, ec, reply)]
    /\ UNCHANGED <<runVars, prev>>
    /\ UNCHANGED <<parked, uuids, apiVars>>

\* GapDetectorAgent.detect_from_searches, lines 79-102
CallDetectFromSearches ==
    /\ call.op = "none"
    /\ \E sq \in AgentQueryLists, ec \in AgentTitleLists,
          reply \in AgentDetectReplies :
         call' = [op |-> "detect_from_searches",
                  args |-> [zero_result_queries |-> sq, existing_content |-> ec],
                  prompt |-> DetectFromSearchesPrompt(sq, ec),
                  reply |-> reply,
                  outcome |-> DetectFromSearches(sq, ec, reply)]
    /\ UNCHANGED <<runVars, prev>>
    /\ UNCHANGED <<parked, uuids, apiVars>>

\* GapDetectorAgent.detect_from_tickets, lines 104-129
CallDetectFromTickets ==
    /\ call.op = "none"
    /\ \E st \in AgentTicketLists, ec \in AgentTitleLists,
          reply \in AgentDetectReplies :
         call' = [op |-> "detect_from_tickets",
                  args |-> [support_tickets |-> st, existing_content |-> ec],
                  prompt |-> DetectFromTicketsPrompt(st, ec),
                  reply |-> reply,
                  outcome |-> DetectFromTickets(st, ec, reply)]
    /\ UNCHANGED <<runVars, prev>>
    /\ UNCHANGED <<parked, uuids, apiVars>>

ContentNoId == [title |-> <<"Exports">>, content |-> <<"e">>]
ContentNoTitle == [id |-> <<"c3">>, content |-> <<"e">>]

AgentContents == {Content1, ContentNoId, ContentNoTitle}

Quality(id, title, overall) ==
    [content_id |-> id, title |-> title, completeness_score |-> 5,
     clarity_score |-> 5, accuracy_score |-> 5, freshness_score |-> 5,
     overall_score |-> overall, issues |-> <<>>, improvements |-> <<>>]

\* what the service may echo for the identity fields and state as a score
AgentQualityReplies ==
    {Raise(e) : e \in ServiceErrors}
    \cup {Return(Dict(Quality(id, t, o))) :
            id \in {<<"c1">>, <<"other">>}, t \in {<<"Billing FAQ">>, <<"Echo">>},
            o \in {0, 10, 15}}
    \cup {Return(Dict([overall_score |-> 5]))}
    \cup {Return(Dict([k \in ContentQualityFields \ {"content_id", "title"} |->
                          Quality(<<>>, <<>>, 5)[k]]))}
    \cup {Return(ContentQuality(Quality(<<"other">>, <<"Echo">>, 5)))}
    \cup {Return(v) : v \in OtherJson}

\* ContentAnalyzerAgent.analyze_quality, lines 63-102
CallAnalyzeQuality ==
    /\ call.op = "none"
    /\ \E content \in AgentContents, reply \in AgentQualityReplies :
         call' = [op |-> "analyze_quality",
                  args |-> [content |-> content],
                  prompt |-> Return(AnalyzeQualityPrompt(content)),
                  reply |-> reply,
                  outcome |-> AnalyzeQuality(content, reply)]
    /\ UNCHANGED <<runVars, prev>>
    /\ UNCHANGED <<parked, uuids, apiVars>>

AgentContentLists == {<<>>, <<Content1>>, <<Content1, ContentNoTitle>>}
AgentTopicLists == {<<>>, << <<"billing">> >>, << <<"billing">>, <<"security">> >>}

\* the service states the three coverage numbers independently of each other
AgentCoverageReplies ==
    {Raise(e) : e \in ServiceErrors}
    \cup {Return(Dict(Coverage(total, covered, pct))) :
            total \in {0, 2}, covered \in {0, 1, 2}, pct \in {0, 500, 900, 1000}}
    \cup {Return(Dict([coverage_percentage |-> 500]))}
    \cup {Return(CoverageAnalysis(Coverage(2, 1, 900)))}
    \cup {Return(v) : v \in OtherJson}

\* ContentAnalyzerAgent.analyze_coverage, lines 104-147
CallAnalyzeCoverage ==
    /\ call.op = "none"
    /\ \E content_list \in AgentContentLists, topics \in AgentTopicLists,
          reply \in AgentCoverageReplies :
         call' = [op |-> "analyze_coverage",
                  args |-> [content_list |-> content_list, expected_topics |-> topics],
                  prompt |-> Return(AnalyzeCoveragePrompt(content_list, topics)),
                  reply |-> reply,
                  outcome |-> AnalyzeCoverage(content_list, topics, reply)]
    /\ UNCHANGED <<runVars, prev>>
    /\ UNCHANGED <<parked, uuids, apiVars>>

AgentSuggestionReplies ==
    {Raise(e) : e \in ServiceErrors}
    \cup {Return(Dict(Suggestion(<<"Guide">>))), Return(Dict([title |-> <<"Guide">>])),
          Return(ContentSuggestionOutput(Suggestion(<<"Guide">>)))}
    \cup {Return(v) : v \in OtherJson}

\* ContentAnalyzerAgent.suggest_content, lines 149-190
CallSuggestContent ==
    /\ call.op = "none"
    /\ \E gap \in {GapLow, GapCritical}, ec \in AgentTitleLists,
          reply \in AgentSuggestionReplies :
         call' = [op |-> "suggest_content",
                  args |-> [gap_title |-> gap["title"],
                            gap_description |-> gap["description"],
                            existing_content |-> ec],
                  prompt |-> Return(SuggestContentPrompt(gap["title"],
                                        gap["description"], ec)),
                  reply |-> reply,
                  outcome |-> SuggestContent(gap["title"], gap["description"], ec, reply)]
    /\ UNCHANGED <<runVars, prev>>
    /\ UNCHANGED <<parked, uuids, apiVars>>

FaqHot == [Faq1 EXCEPT !["confidence_score"] = 15]
FaqNoScore == [k \in GeneratedFAQFields \ {"confidence_score"} |-> Faq1[k]]

StatedFaqs == {<<>>, <<Faq1>>, <<Faq1, FaqHot>>, <<FaqNoScore>>}

AgentFaqReplies ==
    {Raise(e) : e \in ServiceErrors}
    \cup {Return(Dict([faqs |-> f])) : f \in StatedFaqs}
    \cup {Return(Dict([faqs |-> f, total_sources_analyzed |-> 7])) : f \in StatedFaqs}
    \cup {Return(FAQGenerationResult([faqs |-> <<Faq1>>, total_sources_analyzed |-> 7]))}
    \cup {Return(v) : v \in OtherJson}

AgentDocLists == {NoneList, List(<<Content1>>), List(<<Content1, ContentNoTitle>>)}

\* FAQGeneratorAgent.generate, lines 132-174
CallGenerate ==
    /\ call.op = "none"
    /\ \E tickets \in AgentTicketLists, queries \in AgentQueryLists,
          documentation \in AgentDocLists, reply \in AgentFaqReplies :
         call' = [op |-> "generate",
                  args |-> [tickets |-> tickets, queries |-> queries,
                            documentation |-> documentation],
                  prompt |-> GeneratePrompt(tickets, queries, documentation),
                  reply |-> reply,
                  outcome |-> Generate(tickets, queries, documentation, reply)]
    /\ UNCHANGED <<runVars, prev>>
    /\ UNCHANGED <<parked, uuids, apiVars>>

AgentImproveReplies ==
    {Raise(e) : e \in ServiceErrors}
    \cup {Return(Dict(Faq1)), Return(Dict(FaqHot)), Return(Dict(FaqNoScore)),
          Return(GeneratedFAQ(FaqHot))}
    \cup {Return(v) : v \in OtherJson}

\* FAQGeneratorAgent.improve_faq, lines 176-216
CallImproveFaq ==
    /\ call.op = "none"
    /\ \E question \in {<<"How to export?">>}, answer \in {<<>>, <<"Use the menu">>},
          feedback \in {NoneList, List(<<>>), List(<< <<"too short">> >>)},
          reply \in AgentImproveReplies :
         call' = [op |-> "improve_faq",
                  args |-> [question |-> question, current_answer |-> answer,
                            feedback |-> feedback],
                  prompt |-> Return(ImproveFaqPrompt(question, answer, feedback)),
                  reply |-> reply,
                  outcome |-> ImproveFaq(question, answer, feedback, reply)]
    /\ UNCHANGED <<runVars, prev>>
    /\ UNCHANGED <<parked, uuids, apiVars>>

\* FAQGeneratorAgent.generate_from_tickets, lines 73-98
CallGenerateFromTickets ==
    /\ call.op = "none"
    /\ \E tickets \in AgentTicketLists \cup {List(<<>>)},
          existing_docs \in AgentTitleLists, reply \in AgentFaqReplies :
         call' = [op |-> "generate_from_tickets",
                  args |-> [tickets |-> tickets, existing_docs |-> existing_docs],
                  prompt |-> GenerateFromTicketsPrompt(tickets, existing_docs),
                  reply |-> reply,
                  outcome |-> GenerateFromTickets(tickets, existing_docs, reply)]
    /\ UNCHANGED <<runVars, prev>>
    /\ UNCHANGED <<parked, uuids, apiVars>>

\* FAQGeneratorAgent.generate_from_queries, lines 100-130
CallGenerateFromQueries ==
    /\ call.op = "none"
    /\ \E queries \in AgentQueryLists, documentation \in AgentDocLists,
          reply \in AgentFaqReplies :
         call' = [op |-> "generate_from_queries",
                  args |-> [queries |-> queries, documentation |-> documentation],
                  prompt |-> GenerateFromQueriesPrompt(queries, documentation),
                  reply |-> reply,
                  outcome |-> GenerateFromQueries(queries, documentation, reply)]
    /\ UNCHANGED <<runVars, prev>>
    /\ UNCHANGED <<parked, uuids, apiVars>>

NextAgents ==
    \/ CallDetect \/ CallDetectFromSearches \/ CallDetectFromTickets
    \/ CallAnalyzeQuality \/ CallAnalyzeCoverage \/ CallSuggestContent
    \/ CallGenerate \/ CallImproveFaq
    \/ CallGenerateFromTickets \/ CallGenerateFromQueries

SpecAgents == InitAgents /\ [][NextAgents]_vars

-----------------------------------------------------------------------------
(* Two successive invocations, for the properties that compare two calls *)

Overflow == 50

Marked(rows, m, row) == [i \in 1..Len(rows) |-> IF i = m THEN row ELSE rows[i]]

LongFeedback(n) == [i \in 1..n |-> Dict([feedback |-> <<"f", ToString(i)>>])]
LongTitles(n) == [i \in 1..n |-> <<"title", ToString(i)>>]

MarkedQuery == Dict([query |-> <<"marked">>, count |-> 3])
MarkedTicket ==
    Dict([subject |-> <<"marked">>,
          description |-> [i \in 1..(TICKET_DESCRIPTION_CHARS + 1) |-> "x"]])

\* lists that stop at the cap, run past it, and differ in the last kept row or
\* in the first dropped row
PairQueryLists ==
    {NoneList,
     List(LongQueries(QUERY_ROWS)),
     List(LongQueries(QUERY_ROWS + Overflow)),
     List(Marked(LongQueries(QUERY_ROWS + Overflow), QUERY_ROWS, MarkedQuery)),
     List(Marked(LongQueries(QUERY_ROWS + Overflow), QUERY_ROWS + 1, MarkedQuery))}

PairTicketLists ==
    {NoneList,
     List(LongTickets(TICKET_ROWS + Overflow)),
     List(Marked(LongTickets(TICKET_ROWS + Overflow), TICKET_ROWS, MarkedTicket)),
     List(Marked(LongTickets(TICKET_ROWS + Overflow), TICKET_ROWS + 1, MarkedTicket))}

PairFeedbackLists ==
    {List(LongFeedback(FEEDBACK_ROWS)),
     List(LongFeedback(FEEDBACK_ROWS + Overflow)),
     List(Marked(LongFeedback(FEEDBACK_ROWS + Overflow), FEEDBACK_ROWS,
                 Dict([feedback |-> <<"marked">>])))}

PairTitleLists ==
    {List(LongTitles(EXISTING_CONTENT_ROWS)),
     List(LongTitles(EXISTING_CONTENT_ROWS + Overflow)),
     List(Marked(LongTitles(EXISTING_CONTENT_ROWS + Overflow),
                 EXISTING_CONTENT_ROWS, <<"marked">>))}

PairDetectReplies ==
    {Return(Dict([gaps |-> <<GapLow>>, analysis_summary |-> <<"ok">>]))}

PairCoverageReplies ==
    {Return(Dict(Coverage(total, covered, pct))) :
        total \in {0, 2}, covered \in {0, 1}, pct \in {0, 500, 1000}}

\* GapDetectorAgent.detect, lines 131-174, invoked after an earlier call
PairDetect ==
    /\ prev.op = "none"
    /\ prev' = call
    /\ \E sq \in PairQueryLists, st \in PairTicketLists,
          uf \in PairFeedbackLists, ec \in PairTitleLists,
          reply \in PairDetectReplies :
         call' = [op |-> "detect",
                  args |-> [search_queries |-> sq, support_tickets |-> st,
                            user_feedback |-> uf, existing_content |-> ec],
                  prompt |-> DetectPrompt(sq, st, uf, ec),
                  reply |-> reply,
                  outcome |-> Detect(sq, st, uf, ec, reply)]
    /\ UNCHANGED runVars
    /\ UNCHANGED <<parked, uuids, apiVars>>

\* ContentAnalyzerAgent.analyze_coverage, lines 104-147, invoked after an
\* earlier call
PairAnalyzeCoverage ==
    /\ prev.op = "none"
    /\ prev' = call
    /\ \E content_list \in {<<Content1>>},
          topics \in {<<>>, << <<"billing">>, <<"security">> >>},
          reply \in PairCoverageReplies :
         call' = [op |-> "analyze_coverage",
                  args |-> [content_list |-> content_list, expected_topics |-> topics],
                  prompt |-> Return(AnalyzeCoveragePrompt(content_list, topics)),
                  reply |-> reply,
                  outcome |-> AnalyzeCoverage(content_list, topics, reply)]
    /\ UNCHANGED runVars
    /\ UNCHANGED <<parked, uuids, apiVars>>

\* completion services that are deterministic functions of the prompt
StubIds == 1..4

\* what service k answers to an improve_faq prompt
ImproveStub(k, prompt) ==
    CASE k = 1 -> Return(Dict(Faq1))
      [] k = 2 -> Return(Dict([Faq1 EXCEPT
                      !["question"] = prompt.question,
                      !["answer"] = prompt.current_answer \o prompt.feedback]))
      [] k = 3 -> IF prompt.feedback = <<"No specific feedback">>
                  THEN Raise("UpstreamServiceError")
                  ELSE Return(Dict(FaqHot))
      [] k = 4 -> IF prompt.current_answer = <<>>
                  THEN Return(Dict(FaqNoScore))
                  ELSE Return([cls |-> "list"])

\* what service k answers to a generate prompt
GenerateStub(k, prompt) ==
    IF k = 3 /\ prompt.tickets = <<"No ticket data available">>
    THEN Raise("UpstreamServiceError")
    ELSE Return(Dict([faqs |-> <<Faq1>>]))

FaqOps == {"generate", "improve_faq"}

\* the service behind the agent: the one the earlier FAQ call talked to
Services == IF call.op \in FaqOps THEN {call.service} ELSE StubIds

\* FAQGeneratorAgent.generate, lines 132-174, invoked after an earlier call
PairGenerate ==
    /\ prev.op = "none"
    /\ prev' = call
    /\ \E tickets \in {NoneList, List(<<Ticket1>>)}, k \in Services :
         LET prompt == GeneratePrompt(tickets, NoneList, NoneList)
             reply == GenerateStub(k, prompt.value)
         IN  call' = [op |-> "generate",
                      args |-> [tickets |-> tickets, queries |-> NoneList,
                                documentation |-> NoneList],
                      service |-> k,
                      prompt |-> prompt,
                      reply |-> reply,
                      outcome |-> Generate(tickets, NoneList, NoneList, reply)]
    /\ UNCHANGED runVars
    /\ UNCHANGED <<parked, uuids, apiVars>>

\* FAQGeneratorAgent.improve_faq, lines 176-216, invoked after an earlier
\* call
PairImproveFaq ==
    /\ prev.op = "none"
    /\ prev' = call
    /\ \E question \in {<<"How to export?">>}, answer \in {<<>>, <<"Use the menu">>},
          feedback \in {NoneList, List(<<>>), List(<< <<"too short">> >>)},
          k \in Services :
         LET prompt == ImproveFaqPrompt(question, answer, feedback)
             reply == ImproveStub(k, prompt)
         IN  call' = [op |-> "improve_faq",
                      args |-> [question |-> question, current_answer |-> answer,
                                feedback |-> feedback],
                      service |-> k,
                      prompt |-> Return(prompt),
                      reply |-> reply,
                      outcome |-> ImproveFaq(question, answer, feedback, reply)]
    /\ UNCHANGED runVars
    /\ UNCHANGED <<parked, uuids, apiVars>>

NextPairs == PairDetect \/ PairAnalyzeCoverage \/ PairGenerate \/ PairImproveFaq

SpecPairs == InitAgents /\ [][NextPairs]_vars

-----------------------------------------------------------------------------
(* Properties of the analyzer operations, checked under SpecAgents *)

Returned(c, cls) ==
    /\ c.op # "none"
    /\ c.outcome.kind = "return"
    /\ c.outcome.value.cls = cls

\* a score held in tenths lies in [0, 1]
InUnitInterval(x) == 0 <= x /\ x <= 10

\* C4: every score field of a returned result lies in [0,1]; a stated score
\* outside the range makes the operation raise instead of returning it
C4_ScoresInUnitInterval ==
    /\ Returned(call, "GapDetectionResult") =>
          \A i \in 1..Len(call.outcome.value.gaps) :
              InUnitInterval(call.outcome.value.gaps[i]["impact_score"])
    /\ Returned(call, "FAQGenerationResult") =>
          \A i \in 1..Len(call.outcome.value.faqs) :
              InUnitInterval(call.outcome.value.faqs[i]["confidence_score"])
    /\ Returned(call, "GeneratedFAQ") =>
          InUnitInterval(call.outcome.value["confidence_score"])
    /\ Returned(call, "ContentQuality") =>
          \A f \in QualityScoreFields : InUnitInterval(call.outcome.value[f])

SuppliedLength(xs) == IF xs.present THEN Len(xs.items) ELSE 0

\* C5: detect returns total_queries_analyzed and total_tickets_analyzed equal
\* to the lengths of the caller's sequences, for a raw mapping and for an
\* already-structured parser result alike
C5_DetectCountsAreInputLengths ==
    call.op = "detect" /\ Returned(call, "GapDetectionResult") =>
        /\ call.outcome.value.total_queries_analyzed
              = SuppliedLength(call.args.search_queries)
        /\ call.outcome.value.total_tickets_analyzed
              = SuppliedLength(call.args.support_tickets)

\* C6: detect_from_searches and detect_from_tickets return both counts equal
\* to the true lengths, the source the specialization does not take being 0
C6_SpecializationCountsAreInputLengths ==
    /\ call.op = "detect_from_searches" /\ Returned(call, "GapDetectionResult") =>
          /\ call.outcome.value.total_queries_analyzed
                = SuppliedLength(call.args.zero_result_queries)
          /\ call.outcome.value.total_tickets_analyzed = 0
    /\ call.op = "detect_from_tickets" /\ Returned(call, "GapDetectionResult") =>
          /\ call.outcome.value.total_tickets_analyzed
                = SuppliedLength(call.args.support_tickets)
          /\ call.outcome.value.total_queries_analyzed = 0

\* C7: the ContentQuality returned by analyze_quality carries the id and the
\* title of the input record, whatever the reply carries for them
C7_QualityIdentityFromInput ==
    call.op = "analyze_quality" /\ Returned(call, "ContentQuality") =>
        /\ "id" \in DOMAIN call.args.content =>
              call.outcome.value["content_id"] = call.args.content["id"]
        /\ "title" \in DOMAIN call.args.content =>
              call.outcome.value["title"] = call.args.content["title"]

\* C8: a returned CoverageAnalysis with total_topics > 0 has
\* coverage_percentage = covered_topics / total_topics * 100 (percentages are
\* held in tenths, so the factor is 1000)
C8_CoveragePercentageIsRatio ==
    call.op = "analyze_coverage" /\ Returned(call, "CoverageAnalysis")
        /\ call.outcome.value["total_topics"] > 0 =>
            call.outcome.value["coverage_percentage"]
                    * call.outcome.value["total_topics"]
                = call.outcome.value["covered_topics"] * 1000

-----------------------------------------------------------------------------
(* Properties that compare two invocations, checked under SpecPairs *)

\* C9: two analyze_coverage results that both have total_topics = 0 have the
\* same coverage_percentage, whatever percentages the two replies state
C9_ZeroTopicsPercentageFixed ==
    /\ prev.op = "analyze_coverage" /\ Returned(prev, "CoverageAnalysis")
    /\ call.op = "analyze_coverage" /\ Returned(call, "CoverageAnalysis")
    /\ prev.outcome.value["total_topics"] = 0
    /\ call.outcome.value["total_topics"] = 0
    => prev.outcome.value["coverage_percentage"]
          = call.outcome.value["coverage_percentage"]

First(xs, n) == SubSeq(xs.items, 1, IF Len(xs.items) < n THEN Len(xs.items) ELSE n)

PrefixesAgree(a, b) ==
    /\ First(a.search_queries, 50) = First(b.search_queries, 50)
    /\ First(a.support_tickets, 30) = First(b.support_tickets, 30)
    /\ First(a.user_feedback, 20) = First(b.user_feedback, 20)
    /\ First(a.existing_content, 20) = First(b.existing_content, 20)

\* C10: two detect calls whose inputs agree on the first 50 queries, 30
\* tickets, 20 feedback records and 20 titles send identical prompts
C10_PromptDependsOnPrefixesOnly ==
    prev.op = "detect" /\ call.op = "detect"
        /\ PrefixesAgree(prev.args, call.args)
    => prev.prompt = call.prompt

\* 100 queries against the same list cut to 50, and against a list that
\* differs from it in query 51: the prompts sent are the same
C10_Witness ==
    /\ prev.op = "detect" /\ call.op = "detect"
    /\ Len(prev.args.search_queries.items) = 100
    /\ Len(call.args.search_queries.items) \in {50, 100}
    /\ prev.args.search_queries # call.args.search_queries
    /\ PrefixesAgree(prev.args, call.args)
    /\ prev.prompt.kind = "return"
    /\ prev.prompt = call.prompt

-----------------------------------------------------------------------------
(* Properties of the prompts the analyzer operations send, checked under     *)
(* SpecAgents                                                                *)

\* the template variables of an operation that carry a source list
SourceBlocks(c) ==
    CASE c.op = "analyze_quality" -> {}
      [] c.op = "suggest_content" -> {"existing_content"}
      [] c.op = "improve_faq" -> {"feedback"}
      [] OTHER -> DOMAIN c.prompt.value

\* the caller's list behind a block; None when the operation takes no list
\* for it
SourceOf(c, f) ==
    CASE c.op = "detect_from_searches" /\ f = "search_queries" ->
            c.args.zero_result_queries
      [] c.op = "generate_from_tickets" /\ f = "documentation" ->
            c.args.existing_docs
      [] c.op = "analyze_coverage" /\ f = "existing_content" ->
            List(c.args.content_list)
      [] c.op = "analyze_coverage" /\ f = "expected_topics" ->
            List(c.args.expected_topics)
      [] c.op # "analyze_coverage" /\ f \in DOMAIN c.args -> c.args[f]
      [] OTHER -> NoneList

\* the placeholder sentences that appear in the three agents
PlaceholderSentences ==
    {<<"No search data available">>, <<"No ticket data available">>,
     <<"No feedback data available">>, <<"No existing content">>,
     <<"No search data provided">>, <<"No ticket data provided">>,
     <<"No feedback data provided">>, <<"No existing content provided">>,
     <<"No query data available">>, <<"No query data provided">>,
     <<"No existing documentation">>, <<"No related content">>,
     <<"No specific feedback">>}

\* C11: in the prompt of every operation no source block is empty, and the
\* block of an absent or empty source list is a placeholder sentence;
\* analyze_coverage with an empty content_list included
C11_NoEmptySourceBlock ==
    call.op # "none" /\ call.prompt.kind = "return" =>
        \A f \in SourceBlocks(call) :
            /\ call.prompt.value[f] # <<>>
            /\ ~Truthy(SourceOf(call, f)) =>
                  call.prompt.value[f] \in PlaceholderSentences

\* the list a specialization requires has been passed
RequiredListPassed(c) ==
    /\ c.op = "detect_from_searches" => c.args.zero_result_queries.present
    /\ c.op = "generate_from_queries" => c.args.queries.present

\* C12: detect, detect_from_searches, generate and generate_from_queries shape
\* every list of plain strings or mappings into prompt blocks without raising
C12_ShapingIsTotal ==
    /\ call.op \in {"detect", "detect_from_searches", "generate",
                    "generate_from_queries"}
    /\ RequiredListPassed(call)
    => call.prompt.kind = "return"

-----------------------------------------------------------------------------
(* Properties of run_full_analysis in given scenarios, checked under Spec *)

\* text contains part as a contiguous run of tokens
ContainsText(text, part) ==
    \E i \in 1..(Len(text) - Len(part) + 1) :
        SubSeq(text, i, i + Len(part) - 1) = part

\* plain-string queries, no tickets, two expected topics, one content item,
\* no FAQs, suggestions wanted
ScenarioInput ==
    [search_queries |-> List(StringQueries),
     support_tickets |-> NoneList,
     user_feedback |-> NoneList,
     existing_content |-> List(<<Content1>>),
     expected_topics |-> List(<< <<"billing">>, <<"security">> >>),
     generate_faqs |-> FALSE,
     generate_suggestions |-> TRUE]

\* the service has so far always answered with one gap of priority "high"
\* and with a coverage of 50.0
ScenarioService ==
    \A i \in 1..Len(returns) :
        /\ returns[i].outcome.kind = "return"
        /\ returns[i].op = "detect" =>
              IF returns[i].outcome.value.cls = "GapDetectionResult"
              THEN returns[i].outcome.value.gaps = <<DetectedGap(GapHigh)>>
              ELSE FALSE
        /\ returns[i].op = "analyze_coverage" =>
              IF returns[i].outcome.value.cls = "CoverageAnalysis"
              THEN returns[i].outcome.value["coverage_percentage"] = 500
              ELSE FALSE

\* C13: the scenario run does not fail, and when it has completed the report
\* has gaps_found = 1, coverage_score = 50.0, faqs_generated = 0,
\* suggestions_created = 1 and a summary with the gap and coverage clauses
C13_ScenarioCompletes ==
    inp = ScenarioInput /\ ScenarioService =>
        /\ pc # "failed"
        /\ pc = "done" =>
              /\ report.gaps_found = 1
              /\ report.coverage_score = 500
              /\ report.faqs_generated = 0
              /\ report.suggestions_created = 1
              /\ ContainsText(report.summary,
                              <<"Identified ", "1", " knowledge gaps.">>)
              /\ ContainsText(report.summary,
                              <<"Current coverage: ", "50", ".", "0", "%.">>)

-----------------------------------------------------------------------------
(* Properties of the conditional stages of run_full_analysis, checked under  *)
(* Spec                                                                      *)

NonEmpty(xs) == xs.present /\ Len(xs.items) > 0

\* the run has gone past stage S2 / S3 without failing
PastS2 == pc \in {"S3", "S3_await", "S4", "S4_await", "S5", "done"}
PastS3 == pc \in {"S4", "S4_await", "S5", "done"}

\* C14: analyze_coverage is invoked once if expected_topics and
\* existing_content are both non-empty and not at all otherwise; without the
\* call coverage_score keeps 0.0, with it coverage_score is the
\* coverage_percentage of the returned CoverageAnalysis
C14_CoverageStageConditional ==
    pc # "idle" =>
        LET both == NonEmpty(inp.expected_topics) /\ NonEmpty(inp.existing_content)
            cc == CallsOf("analyze_coverage")
            cr == ReturnsOf("analyze_coverage")
        IN  /\ Len(cc) <= 1
            /\ ~both => Len(cc) = 0 /\ report.coverage_score = 0
            /\ PastS2 /\ both =>
                  /\ Len(cc) = 1
                  /\ Len(cr) = 1
                  /\ cr[1].outcome.kind = "return"
                  /\ report.coverage_score
                        = cr[1].outcome.value["coverage_percentage"]
            /\ Len(cr) = 0 => report.coverage_score = 0

\* a completed run in which S2 ran and stored 50.0
C14_Witness ==
    /\ pc = "done"
    /\ NonEmpty(inp.expected_topics) /\ NonEmpty(inp.existing_content)
    /\ Len(CallsOf("analyze_coverage")) = 1
    /\ report.coverage_score = 500

\* C15: generate is invoked once if generate_faqs is set and support_tickets
\* is non-empty and not at all otherwise; without the call faqs stays empty
\* and faqs_generated stays 0, whatever queries and documentation were passed
C15_FaqStageConditional ==
    pc # "idle" =>
        LET runs == inp.generate_faqs /\ NonEmpty(inp.support_tickets)
            gc == CallsOf("generate")
            gr == ReturnsOf("generate")
        IN  /\ Len(gc) <= 1
            /\ ~runs =>
                  /\ Len(gc) = 0
                  /\ report.faqs = <<>>
                  /\ report.faqs_generated = 0
            /\ PastS3 /\ runs =>
                  /\ Len(gc) = 1
                  /\ Len(gr) = 1
                  /\ gr[1].outcome.kind = "return"
                  /\ report.faqs = gr[1].outcome.value.faqs

\* a completed run with the flag set, queries and documentation passed, but
\* no tickets: S3 was skipped
C15_Witness ==
    /\ pc = "done"
    /\ inp.generate_faqs
    /\ ~NonEmpty(inp.support_tickets)
    /\ NonEmpty(inp.search_queries)
    /\ NonEmpty(inp.existing_content)
    /\ Len(CallsOf("generate")) = 0
    /\ report.faqs = <<>>
    /\ report.faqs_generated = 0

-----------------------------------------------------------------------------
(* Properties of failing and of counting the calls of run_full_analysis,     *)
(* checked under Spec                                                        *)

\* the errors a completion-service call ends with: the upstream ones and
\* the validation of the parsed reply
CallErrors == ServiceErrors \cup {"ValidationError"}

\* C16: when the call of a stage raises, that error is the one that leaves
\* run_full_analysis, it is the last call of the run, the run never reaches
\* a later stage nor returns a report, and nothing more happens
C16_FailFast ==
    /\ [](\A i \in 1..Len(returns) :
             returns[i].outcome.kind = "raise" =>
                /\ returns[i].outcome.error \in CallErrors
                /\ i = Len(returns)
                /\ Len(calls) = Len(returns)
                /\ outstanding = 0
                /\ pc = "failed"
                /\ raised = returns[i].outcome.error)
    /\ [][pc = "failed" => UNCHANGED vars]_vars

\* a suggestion call rejected by validation after S1, S2 and an earlier
\* suggestion had filled the report
C16_Witness ==
    /\ pc = "failed"
    /\ raised = "ValidationError"
    /\ returns[Len(returns)].op = "suggest_content"
    /\ report.gaps_found >= 2
    /\ report.coverage_score = 500
    /\ Len(report.suggestions) >= 1

\* the number of completion-service calls the arguments and the gaps of S1
\* account for
ExpectedCalls ==
    1 + (IF NonEmpty(inp.expected_topics) /\ NonEmpty(inp.existing_content)
         THEN 1 ELSE 0)
      + (IF inp.generate_faqs /\ NonEmpty(inp.support_tickets) THEN 1 ELSE 0)
      + (IF inp.generate_suggestions THEN Min(5, Len(report.gaps)) ELSE 0)

\* C17: detect is called once in every run, also when every source is empty;
\* a completed run has made 1 + [S2 ran] + [S3 ran] + min(5, gaps) calls (the
\* last term with generate_suggestions only); no call follows a failed one
C17_NoRetries ==
    /\ [](Len(CallsOf("detect")) <= 1)
    /\ [](pc \in {"S1_await", "S2", "S2_await", "S3", "S3_await", "S4",
                  "S4_await", "S5", "done"} => Len(CallsOf("detect")) = 1)
    /\ [](pc = "done" => Len(calls) = ExpectedCalls)
    /\ [][Len(calls') > Len(calls) =>
            \A i \in 1..Len(returns) : returns[i].outcome.kind = "return"]_vars

\* a completed run over no source at all: detect was called, then five
\* suggestions for the six gaps it returned
C17_Witness ==
    /\ pc = "done"
    /\ ~NonEmpty(inp.search_queries) /\ ~NonEmpty(inp.support_tickets)
    /\ ~NonEmpty(inp.user_feedback) /\ ~NonEmpty(inp.existing_content)
    /\ inp.generate_suggestions
    /\ Len(report.gaps) = 6
    /\ Len(CallsOf("detect")) = 1
    /\ Len(calls) = 6

-----------------------------------------------------------------------------
(* Properties of the summary of a completed run, checked under Spec *)

\* the summary has a clause that opens with the given words
HasClause(text, opening) == \E i \in 1..Len(text) : text[i] = opening

\* C18: the summary of a completed run has the FAQ clause exactly when S3
\* ran, the suggestion clause exactly when S4 ran and the coverage clause
\* exactly when S2 ran, also when the stage produced zero FAQs, zero
\* suggestions or a coverage of 0.0
C18_SummaryNamesStagesThatRan ==
    pc = "done" =>
        /\ HasClause(report.summary, "Generated ")
              <=> Len(CallsOf("generate")) = 1
        /\ HasClause(report.summary, "Created ")
              <=> inp.generate_suggestions
        /\ HasClause(report.summary, "Current coverage: ")
              <=> Len(CallsOf("analyze_coverage")) = 1

\* C19: the summary of a completed run has the critical-gap warning exactly
\* when some gap of report.gaps has priority "critical", and the warning
\* names the number of such gaps among all of report.gaps
C19_CriticalWarningCountsAllGaps ==
    pc = "done" =>
        LET n == Cardinality({i \in 1..Len(report.gaps) :
                                 report.gaps[i]["priority"] = "critical"})
        IN  /\ HasClause(report.summary, "ATTENTION: ") <=> n # 0
            /\ n # 0 =>
                  ContainsText(report.summary,
                     <<"ATTENTION: ", ToString(n),
                       " critical gaps require immediate attention.">>)

\* six gaps of which only the sixth is critical: the warning names 1
C19_Witness ==
    /\ pc = "done"
    /\ Len(report.gaps) = 6
    /\ \A i \in 1..5 : report.gaps[i]["priority"] = "low"
    /\ report.gaps[6]["priority"] = "critical"
    /\ ContainsText(report.summary,
          <<"ATTENTION: ", "1", " critical gaps require immediate attention.">>)

-----------------------------------------------------------------------------
(* Properties of the validation of replies, checked under SpecAgents *)

Priorities == {"critical", "high", "medium", "low"}

\* C20: detect never returns a GapDetectionResult holding a gap whose
\* priority is outside critical, high, medium, low; such a reply makes it
\* raise a validation error
C20_PriorityOutsideEnumerationRejected ==
    /\ call.op = "detect" /\ Returned(call, "GapDetectionResult") =>
          \A i \in 1..Len(call.outcome.value.gaps) :
              call.outcome.value.gaps[i]["priority"] \in Priorities
    /\ /\ call.op = "detect"
       /\ call.prompt.kind = "return"
       /\ call.reply.kind = "return"
       /\ call.reply.value.cls = "dict"
       /\ \E i \in 1..Len(Get(call.reply.value.items, "gaps", <<>>)) :
             call.reply.value.items["gaps"][i]["priority"] \notin Priorities
       => call.outcome = Raise("ValidationError")

-----------------------------------------------------------------------------
(* Properties of the FAQ generator, checked under SpecAgents *)

\* C21: generate returns total_sources_analyzed = tickets supplied + queries
\* supplied, an absent source counting 0 and the full lengths counting, not
\* the prompt rows; the documentation and the number the reply states do not
\* change it
C21_TotalSourcesIsTicketsPlusQueries ==
    call.op = "generate" /\ Returned(call, "FAQGenerationResult") =>
        call.outcome.value.total_sources_analyzed
            = SuppliedLength(call.args.tickets) + SuppliedLength(call.args.queries)

-----------------------------------------------------------------------------
(* Properties that compare two FAQ generator calls, checked under SpecPairs *)

-----------------------------------------------------------------------------
(* Properties of the gaps of the report, checked under Spec *)

\* the gaps the completion service stated in its answer to S1
S1ResponseGaps == Get(returns[1].reply.value.items, "gaps", <<>>)

\* C24: once S1 is over the gaps of the report are the gaps of the service's
\* answer to S1, as many and in the same order, and gaps_found is their
\* number; no step after S1 changes report.gaps or gaps_found
C24_GapsAreS1Response ==
    /\ [](pc \in {"S2", "S2_await", "S3", "S3_await", "S4", "S4_await", "S5",
                  "done"} =>
             /\ Len(report.gaps) = Len(S1ResponseGaps)
             /\ \A i \in 1..Len(report.gaps) :
                   \A f \in DetectedGapFields :
                       report.gaps[i][f] = S1ResponseGaps[i][f]
             /\ report.gaps_found = Len(S1ResponseGaps))
    /\ [][pc \notin {"idle", "S1", "S1_await"} =>
             /\ report'.gaps = report.gaps
             /\ report'.gaps_found = report.gaps_found]_vars

\* a completed run in which every stage ran over six gaps stated in an order
\* that is not the order of priority
C24_Witness ==
    /\ pc = "done"
    /\ Len(S1ResponseGaps) = 6
    /\ S1ResponseGaps[1]["priority"] = "low"
    /\ S1ResponseGaps[2]["priority"] = "critical"
    /\ S1ResponseGaps[3]["priority"] = "low"
    /\ report.gaps[2]["priority"] = "critical"
    /\ report.faqs_generated = 1
    /\ report.suggestions_created = 5
    /\ report.coverage_score = 500

\* C26: the elapsed time stated in the summary of a completed run is the
\* duration_seconds of the returned report
C26_SummaryStatesFinalDuration ==
    pc = "done" =>
        ContainsText(report.summary,
            <<"Analysis completed in ">> \o Fixed1(report.duration_seconds)
                \o <<" seconds.">>)

-----------------------------------------------------------------------------
(* Properties of what the analyzer operations return, checked under          *)
(* SpecAgents                                                                *)

\* the result type each operation declares
DeclaredType(op) ==
    CASE op \in {"detect", "detect_from_searches", "detect_from_tickets"} ->
            "GapDetectionResult"
      [] op \in {"generate", "generate_from_tickets", "generate_from_queries"} ->
            "FAQGenerationResult"
      [] op = "improve_faq" -> "GeneratedFAQ"
      [] op = "analyze_quality" -> "ContentQuality"
      [] op = "analyze_coverage" -> "CoverageAnalysis"
      [] op = "suggest_content" -> "ContentSuggestionOutput"

\* C27: detect, generate, improve_faq, analyze_quality, analyze_coverage and
\* suggest_content either raise or return a value of their declared result
\* type; a parsed list or null is never handed to the caller
C27_ReturnsDeclaredTypeOrRaises ==
    /\ call.op \in {"detect", "generate", "improve_faq", "analyze_quality",
                    "analyze_coverage", "suggest_content"}
    /\ call.outcome.kind = "return"
    => call.outcome.value.cls = DeclaredType(call.op)

-----------------------------------------------------------------------------
(* analyze_content_quality as a state machine: inp holds its argument,       *)
(* report its local result, pc its position                                  *)

QUALITY_ITEMS == 20

\* ContentAnalysisResult(), content_analyzer.py lines 46-51
ContentAnalysisResult ==
    [quality_assessments |-> <<>>, coverage |-> [cls |-> "NoneType"],
     suggestions |-> <<>>, summary |-> <<>>]

\* the loop running over the whole list
QualityItemsUncapped(content_list) == content_list

\* line 130: content_list[:20]
QualityItems(content_list) == Take(content_list, QUALITY_ITEMS)

\* line 136: sum(q.overall_score for q in ...), in tenths
RECURSIVE SumOverall(_)
SumOverall(qs) ==
    IF qs = <<>> THEN 0
    ELSE IF Len(qs) = 1 THEN qs[1]["overall_score"]
    ELSE LET half == Len(qs) \div 2
         IN  SumOverall(SubSeq(qs, 1, half))
                + SumOverall(SubSeq(qs, half + 1, Len(qs)))

\* line 136: the mean, in hundredths, rounded to the nearest hundredth
AvgScore(qs) == (SumOverall(qs) * 20 + Len(qs)) \div (2 * Len(qs))

\* f"{x:.2f}" of a non-negative float held in hundredths
Fixed2(x) ==
    <<ToString(x \div 100), ".", ToString((x % 100) \div 10), ToString(x % 10)>>

\* line 137
QualitySummary(qs) ==
    <<"Analyzed ", ToString(Len(qs)),
      " pieces of content. Average quality score: ">> \o Fixed2(AvgScore(qs))

\* the caller's content lists: none, one, two, as many as the cap, one more
LongContents(n) ==
    [i \in 1..n |-> [id |-> <<"c", ToString(i)>>, title |-> <<"t", ToString(i)>>,
                      content |-> <<"x">>]]

QualityInputs ==
    {<<>>, <<Content1>>, <<Content1, ContentNoId>>, <<ContentNoId, Content1>>,
     LongContents(QUALITY_ITEMS), LongContents(QUALITY_ITEMS + 1)}

\* what the service may answer for one content item
QualityReplies(content) ==
    {Raise("UpstreamServiceError"), Return(Dict(Quality(<<>>, <<>>, 8)))}
    \cup (IF content \in {Content1, ContentNoId}
          THEN {Return(Dict(Quality(<<>>, <<>>, 4))), Return([cls |-> "list"]),
                Return(Dict([overall_score |-> 5]))}
          ELSE {})

\* lines 123-128: the caller invokes analyze_content_quality
QStart ==
    /\ pc = "idle"
    /\ \E content_list \in QualityInputs : inp' = [content_list |-> content_list]
    /\ report' = ContentAnalysisResult
    /\ pc' = "Q"
    /\ UNCHANGED <<gap_result, content_titles, outstanding, calls, returns,
                   raised, call, prev>>
    /\ UNCHANGED <<parked, uuids, apiVars>>

\* the position of the for loop of line 130
QualityIndex == Len(report.quality_assessments) + 1

\* lines 130-131: the next iteration awaits analyze_quality
QIssue ==
    /\ pc = "Q"
    /\ QualityIndex <= Len(QualityItems(inp.content_list))
    /\ LET content == QualityItems(inp.content_list)[QualityIndex]
       IN  calls' = Append(calls, [op |-> "analyze_quality", content |-> content,
                                   prompt |-> AnalyzeQualityPrompt(content)])
    /\ outstanding' = outstanding + 1
    /\ pc' = "Q_await"
    /\ UNCHANGED <<inp, report, gap_result, content_titles, returns, raised,
                   call, prev>>
    /\ UNCHANGED <<parked, uuids, apiVars>>

\* lines 131-132: the awaited assessment is appended
QReturn ==
    /\ pc = "Q_await"
    /\ outstanding' = outstanding - 1
    /\ LET content == QualityItems(inp.content_list)[QualityIndex]
       IN  \E reply \in QualityReplies(content) :
             LET out == AnalyzeQuality(content, reply)
             IN  /\ returns' = Append(returns,
                                      [op |-> "analyze_quality", outcome |-> out])
                 /\ IF out.kind = "raise"
                    THEN /\ Fail(out.error)
                         /\ UNCHANGED report
                    ELSE /\ report' = [report EXCEPT
                                         !.quality_assessments = Append(@, out.value)]
                         /\ pc' = "Q"
                         /\ UNCHANGED raised
    /\ UNCHANGED <<inp, gap_result, content_titles, calls, call, prev>>
    /\ UNCHANGED <<parked, uuids, apiVars>>

\* lines 135-139: the loop is exhausted, the summary is computed and the
\* result returned
QFinish ==
    /\ pc = "Q"
    /\ QualityIndex > Len(QualityItems(inp.content_list))
    /\ LET qs == report.quality_assessments
       IN  IF qs = <<>>
           THEN /\ pc' = "done"
                /\ UNCHANGED <<report, raised>>
           ELSE IF \E i \in 1..Len(qs) : qs[i].cls # "ContentQuality"
           THEN /\ Fail("AttributeError")
                /\ UNCHANGED report
           ELSE /\ report' = [report EXCEPT !.summary = QualitySummary(qs)]
                /\ pc' = "done"
                /\ UNCHANGED raised
    /\ UNCHANGED <<inp, gap_result, content_titles, outstanding, calls, returns,
                   call, prev>>
    /\ UNCHANGED <<parked, uuids, apiVars>>

NextQuality == QStart \/ QIssue \/ QReturn \/ QFinish

SpecQuality == Init /\ [][NextQuality]_vars

-----------------------------------------------------------------------------
(* Properties of analyze_content_quality, checked under SpecQuality *)

\* the first min(20, n) items of the caller's list
FirstItems ==
    SubSeq(inp.content_list, 1, Min(20, Len(inp.content_list)))

\* the sum of the overall scores of the returned assessments, in tenths
RECURSIVE ScoreSum(_, _)
ScoreSum(qs, n) ==
    IF n = 0 THEN 0 ELSE qs[n]["overall_score"] + ScoreSum(qs, n - 1)

\* C25: analyze_quality is invoked for the first min(20, n) items, one call
\* at a time and in input order; the completed call returns one assessment
\* per item in that order, with a summary that states their number and the
\* mean of their overall scores; for an empty list no call is made and the
\* summary is the empty string
C25_QualityPerItemInOrder ==
    pc # "idle" =>
        /\ Len(calls) <= Len(FirstItems)
        /\ Len(calls) - Len(returns) \in {0, 1}
        /\ outstanding = Len(calls) - Len(returns)
        /\ \A i \in 1..Len(calls) :
              /\ calls[i].op = "analyze_quality"
              /\ calls[i].content = FirstItems[i]
        /\ pc = "done" =>
              LET qs == report.quality_assessments
                  n == Len(FirstItems)
              IN  /\ Len(calls) = n
                  /\ Len(qs) = n
                  /\ \A i \in 1..n :
                        /\ returns[i].outcome.kind = "return"
                        /\ qs[i] = returns[i].outcome.value
                  /\ n = 0 => report.summary = <<>>
                  /\ n > 0 =>
                        /\ report.summary[1] = "Analyzed "
                        /\ report.summary[2] = ToString(n)
                        /\ \E h \in 0..200 :
                              /\ SubSeq(report.summary, 4, Len(report.summary))
                                    = Fixed2(h)
                              /\ 2 * (h * n - 10 * ScoreSum(qs, n)) <= n
                              /\ 2 * (10 * ScoreSum(qs, n) - h * n) <= n

\* 21 items passed: 20 assessments returned, with mean 0.80
C25_Witness ==
    /\ pc = "done"
    /\ Len(inp.content_list) = 21
    /\ Len(calls) = 20
    /\ Len(report.quality_assessments) = 20
    /\ report.summary =
          <<"Analyzed ", "20", " pieces of content. Average quality score: ",
            "0", ".", "8", "0">>

-----------------------------------------------------------------------------
(* Two run_full_analysis coroutines on one event loop.  One run executes   *)
(* at a time; the other is suspended at an await (or has not started, or   *)
(* has finished) and its locals are parked.  The loop may resume the       *)
(* parked run whenever the executing one reaches an await.                 *)

InputFull ==
    [search_queries |-> List(<<Query1>>),
     support_tickets |-> List(<<Ticket1>>),
     user_feedback |-> NoneList,
     existing_content |-> List(<<Content1>>),
     expected_topics |-> List(<< <<"billing">>, <<"security">> >>),
     generate_faqs |-> TRUE,
     generate_suggestions |-> TRUE]

InputPlain ==
    [search_queries |-> List(<<Query1>>),
     support_tickets |-> NoneList,
     user_feedback |-> NoneList,
     existing_content |-> NoneList,
     expected_topics |-> NoneList,
     generate_faqs |-> FALSE,
     generate_suggestions |-> FALSE]

ConcurrentInputs == {InputFull, InputPlain}

\* uuid.uuid4(): a value that has not been drawn before
Uuid4(drawn) == drawn + 1

\* AnalysisReport.__init__, line 16: the instance carries its own id
WithId(rep, id) == [id |-> id] @@ rep

\* the locals and the history of the run that is executing
RunLocals ==
    [cls |-> "locals", pc |-> pc, inp |-> inp, report |-> report,
     gap_result |-> gap_result, content_titles |-> content_titles,
     outstanding |-> outstanding, calls |-> calls, returns |-> returns,
     raised |-> raised]

\* the positions at which a coroutine is not executing
SuspendedAt ==
    {"idle", "S1_await", "S2_await", "S3_await", "S4_await", "done", "failed"}

\* the detection result kept on the orchestrator, which both runs use
GapResultOnInstance(own, current) == current

\* line 54: gap_result is a local of the coroutine, so a resumed run finds
\* the value it stored itself
ResumedGapResult(own, current) == own

InitTwoRuns ==
    /\ InitRun
    /\ call = NoCall
    /\ prev = NoCall
    /\ parked = RunLocals
    /\ InitRequests

\* lines 49-50 and 15-26: a caller invokes run_full_analysis
StartConcurrent ==
    /\ pc = "idle"
    /\ \E in \in ConcurrentInputs : inp' = in
    /\ report' = WithId(AnalysisReport, Uuid4(uuids))
    /\ uuids' = uuids + 1
    /\ pc' = "S1"
    /\ UNCHANGED <<gap_result, content_titles, outstanding, calls, returns,
                   raised, call, prev, parked, apiVars>>

\* the event loop suspends the executing run at its await and resumes the
\* other one
Switch ==
    /\ pc \in SuspendedAt
    /\ parked' = RunLocals
    /\ pc' = parked.pc
    /\ inp' = parked.inp
    /\ report' = parked.report
    /\ gap_result' = ResumedGapResult(parked.gap_result, gap_result)
    /\ content_titles' = parked.content_titles
    /\ outstanding' = parked.outstanding
    /\ calls' = parked.calls
    /\ returns' = parked.returns
    /\ raised' = parked.raised
    /\ UNCHANGED <<call, prev, uuids, apiVars>>

NextTwoRuns ==
    \/ StartConcurrent
    \/ S1Issue \/ S1Return
    \/ S2Issue \/ S2Skip \/ S2Return
    \/ S3Issue \/ S3Skip \/ S3Return
    \/ S4Issue \/ S4Return \/ S4Done \/ S4Skip
    \/ S5Finalize
    \/ Switch

SpecTwoRuns == InitTwoRuns /\ [][NextTwoRuns]_vars

-----------------------------------------------------------------------------
(* Properties of concurrent runs, checked under SpecTwoRuns *)

\* the report run_full_analysis returns when it executes alone with the
\* arguments in and is answered rets, every call succeeding
SoloReport(in, rets) ==
    LET titles == ContentTitles(in.existing_content)
        d == Detect(in.search_queries, in.support_tickets, in.user_feedback,
                    titles, rets[1].reply).value
        r1 == [AnalysisReport EXCEPT !.gaps = ReportedGaps(d),
                                     !.gaps_found = GapsFound(d)]
        k3 == IF RunsCoverage(in) THEN 3 ELSE 2
        r2 == IF RunsCoverage(in)
              THEN [r1 EXCEPT !.coverage_score =
                      AnalyzeCoverage(in.existing_content.items,
                                      in.expected_topics.items,
                                      rets[2].reply).value.coverage_percentage]
              ELSE r1
        k4 == IF RunsFaqs(in) THEN k3 + 1 ELSE k3
        r3 == IF RunsFaqs(in)
              THEN LET f == Generate(in.support_tickets, in.search_queries,
                                     in.existing_content, rets[k3].reply).value
                   IN  [r2 EXCEPT !.faqs = f.faqs,
                                  !.faqs_generated = FaqsGenerated(f)]
              ELSE r2
        gaps == SuggestionGaps(d.gaps)
        made == [i \in 1..Len(gaps) |->
                   SuggestContent(gaps[i]["title"], gaps[i]["description"],
                       List(Take(titles.items, SUGGEST_EXISTING_ROWS)),
                       rets[k4 + i - 1].reply).value]
        r4 == IF in.generate_suggestions
              THEN [r3 EXCEPT !.suggestions = made,
                              !.suggestions_created = Len(made)]
              ELSE r3
    IN  [r4 EXCEPT !.summary = GenerateSummary(r4)]

\* the number of answers a run consumes when it executes alone with the
\* arguments in and is answered rets, every call succeeding
SoloAnswers(in, rets) ==
    LET d == Detect(in.search_queries, in.support_tickets, in.user_feedback,
                    ContentTitles(in.existing_content), rets[1].reply).value
    IN  1 + (IF RunsCoverage(in) THEN 1 ELSE 0)
          + (IF RunsFaqs(in) THEN 1 ELSE 0)
          + (IF in.generate_suggestions THEN Len(SuggestionGaps(d.gaps)) ELSE 0)

\* the contents of a report: every field but its id and its duration
ReportContents ==
    {"gaps_found", "faqs_generated", "suggestions_created", "coverage_score",
     "gaps", "faqs", "suggestions", "summary"}

SameContents(a, b) == \A f \in ReportContents : a[f] = b[f]

\* a completed run consumed the answers it would consume alone and returns
\* the report it would return alone
AsAlone(rep, in, rets) ==
    /\ Len(rets) = SoloAnswers(in, rets)
    /\ SameContents(rep, SoloReport(in, rets))

\* C23: whatever the interleaving of two concurrent runs, the report each
\* run returns has the contents the run would produce alone from its own
\* arguments and the answers it received, and the two reports carry
\* different ids
C23_ConcurrentRunsAreIsolated ==
    /\ pc = "done" => AsAlone(report, inp, returns)
    /\ parked.pc = "done" => AsAlone(parked.report, parked.inp, parked.returns)
    /\ (pc = "done" /\ parked.pc = "done") => report.id # parked.report.id

\* one run has returned its report while the other, answered differently
\* by the detector, is suspended in the middle of its own run
C23_Witness ==
    /\ pc = "done"
    /\ parked.pc = "S4_await"
    /\ Len(parked.report.gaps) = 2
    /\ Len(parked.report.suggestions) = 1
    /\ Len(report.gaps) = 1
    /\ Len(report.suggestions) = 1
    /\ report.id # parked.report.id

-----------------------------------------------------------------------------
(* The run_analysis route (api/analysis.py): it stores a report row with   *)
(* status "running", awaits run_full_analysis, then stores the outcome.    *)

NoneValue == [cls |-> "NoneType"]

\* lines 41-43: `x or []`
OrEmpty(xs) == IF Truthy(xs) THEN xs ELSE List(<<>>)

RouteArgs ==
    [search_queries : {NoneList, List(<<Query1>>)},
     support_tickets : {NoneList, List(<<Ticket1>>)},
     expected_topics : {NoneList, List(<< <<"billing">>, <<"security">> >>)},
     generate_faqs : BOOLEAN]

\* lines 30-34 with the column defaults of AnalysisReportDB
AnalysisReportDB(id) ==
    [id |-> id, report_type |-> "full_analysis", status |-> "running",
     gaps_found |-> 0, faqs_generated |-> 0, suggestions_created |-> 0,
     coverage_after |-> NoneValue, summary |-> NoneValue,
     completed_at |-> NoneValue]

\* lines 49-58 with the column defaults of GapDB
GapDB(id, gap) ==
    [id |-> id, title |-> gap["title"], description |-> gap["description"],
     topic |-> gap["topic"], priority |-> gap["priority"],
     status |-> "identified", source |-> "content_analysis",
     impact_score |-> gap["impact_score"],
     suggested_content |-> gap["suggested_content"]]

\* lines 63-70 with the column defaults of FAQDB
FAQDBFromAnalysis(id, faq) ==
    [id |-> id, question |-> faq["question"], answer |-> faq["answer"],
     category |-> faq["category"], status |-> "pending_review",
     confidence_score |-> faq["confidence_score"],
     helpful_count |-> 0, not_helpful_count |-> 0,
     published_at |-> NoneValue]

\* lines 74-80: the attributes set on db_report
CompletedReport(row, result) ==
    [row EXCEPT !.status = "completed",
                !.gaps_found = result.gaps_found,
                !.faqs_generated = result.faqs_generated,
                !.suggestions_created = result.suggestions_created,
                !.coverage_after = result.coverage_score,
                !.summary = result.summary,
                !.completed_at = [cls |-> "datetime"]]

\* lines 29-36: the row is added and committed
RouteCreate ==
    /\ route.at = "idle"
    /\ \E args \in RouteArgs :
         route' = [at |-> "created", args |-> args, report_id |-> Uuid4(uuids)]
    /\ uuids' = uuids + 1
    /\ db' = [db EXCEPT !.analysis_reports =
                 Append(@, AnalysisReportDB(Uuid4(uuids)))]
    /\ UNCHANGED <<runVars, call, prev, parked, votes, response>>

\* lines 39-45: a new orchestrator runs the analysis; existing_content and
\* user_feedback are not passed and generate_suggestions keeps its default
RouteInvoke ==
    /\ route.at = "created"
    /\ pc = "idle"
    /\ inp' = [search_queries |-> OrEmpty(route.args.search_queries),
               support_tickets |-> OrEmpty(route.args.support_tickets),
               user_feedback |-> NoneList,
               existing_content |-> NoneList,
               expected_topics |-> OrEmpty(route.args.expected_topics),
               generate_faqs |-> route.args.generate_faqs,
               generate_suggestions |-> TRUE]
    /\ report' = AnalysisReport
    /\ pc' = "S1"
    /\ route' = [route EXCEPT !.at = "awaiting"]
    /\ UNCHANGED <<gap_result, content_titles, outstanding, calls, returns,
                   raised, call, prev, parked, uuids, db, votes, response>>

\* lines 48-92: run_full_analysis returned its report; the gaps, the FAQs
\* and the completed report row are committed together
RouteSave ==
    /\ route.at = "awaiting"
    /\ pc = "done"
    /\ LET n == Len(report.gaps)
           m == Len(report.faqs)
           gapRows == [i \in 1..n |-> GapDB(Uuid4(uuids + i - 1), report.gaps[i])]
           faqRows == [i \in 1..m |->
                         FAQDBFromAnalysis(Uuid4(uuids + n + i - 1), report.faqs[i])]
       IN  /\ db' = [analysis_reports |->
                        [k \in 1..Len(db.analysis_reports) |->
                           IF db.analysis_reports[k].id = route.report_id
                           THEN CompletedReport(db.analysis_reports[k], report)
                           ELSE db.analysis_reports[k]],
                     gaps |-> db.gaps \o gapRows,
                     faqs |-> db.faqs \o faqRows]
           /\ uuids' = uuids + n + m
    /\ route' = [route EXCEPT !.at = "returned"]
    /\ UNCHANGED <<runVars, call, prev, parked, votes, response>>

\* line 40: the exception raised inside run_full_analysis leaves the
\* handler, which has no try statement; nothing more is committed
RouteRaise ==
    /\ route.at = "awaiting"
    /\ pc = "failed"
    /\ route' = [route EXCEPT !.at = "raised"]
    /\ UNCHANGED <<runVars, call, prev, parked, uuids, db, votes, response>>

NextRoute ==
    \/ RouteCreate \/ RouteInvoke
    \/ S1Issue \/ S1Return
    \/ S2Skip
    \/ S3Issue \/ S3Skip \/ S3Return
    \/ S4Issue \/ S4Return \/ S4Done
    \/ S5Finalize
    \/ RouteSave \/ RouteRaise

SpecRoute == Init /\ [][NextRoute]_vars

-----------------------------------------------------------------------------
(* Properties of the run_analysis route, checked under SpecRoute *)

\* the stored row of the report the request created
RouteReport ==
    CHOOSE row \in {db.analysis_reports[k] : k \in 1..Len(db.analysis_reports)} :
        row.id = route.report_id

\* C28: once the run_analysis request has ended, by returning or by
\* raising, the report row it created is no longer at status "running"
C28_ReportLeavesRunning ==
    route.at \in {"returned", "raised"} => RouteReport.status # "running"

-----------------------------------------------------------------------------
(* The FAQ routes (api/faqs.py) over the faqs table.  Each request has its *)
(* own session.  faq_feedback is split at its two awaits, the SELECT and   *)
(* the commit, so that other requests may run between them; the other      *)
(* routes are taken in one step.                                           *)

MaxFaqIds == 1
MaxVotes == 2

FaqIds == 1..MaxFaqIds

\* models/faq.py, lines 9-14
FAQStatus == {"draft", "pending_review", "approved", "published", "archived"}

Utcnow == [cls |-> "datetime"]

\* the body of a create_faq request
FaqCreate1 ==
    [question |-> <<"How to export?">>, answer |-> <<"Use the menu">>,
     category |-> <<"export">>]

\* the bodies of the update_faq requests
FaqUpdates ==
    {[status |-> "published"], [status |-> "retired"], [helpful_count |-> 9]}

\* lines 54-60 with the column defaults of FAQDB
FAQDBCreated(id, faq) ==
    [id |-> id, question |-> faq.question, answer |-> faq.answer,
     category |-> faq.category, status |-> "draft", confidence_score |-> 0,
     helpful_count |-> 0, not_helpful_count |-> 0, published_at |-> NoneValue]

\* lines 83-92 with the column defaults of FAQDB
FAQDBGenerated(id, faq) ==
    [id |-> id, question |-> faq["question"], answer |-> faq["answer"],
     category |-> faq["category"], status |-> "pending_review",
     confidence_score |-> faq["confidence_score"],
     helpful_count |-> 0, not_helpful_count |-> 0, published_at |-> NoneValue]

\* result.scalar_one_or_none() of select(FAQDB).where(FAQDB.id == faq_id)
Stored(faq_id) == {k \in 1..Len(db.faqs) : db.faqs[k].id = faq_id}
StoredRow(faq_id) == db.faqs[CHOOSE k \in Stored(faq_id) : TRUE]

Written(faq_id, row) ==
    [db EXCEPT !.faqs = [k \in 1..Len(db.faqs) |->
                           IF db.faqs[k].id = faq_id THEN row ELSE db.faqs[k]]]

NotFound == Raise("HTTPException")

\* lines 178-200
FaqToResponse(faq) ==
    LET total_votes == faq.helpful_count + faq.not_helpful_count
    IN  IF faq.status \notin FAQStatus
        THEN Raise("ValueError")
        ELSE Return(
               [id |-> faq.id, question |-> faq.question, answer |-> faq.answer,
                category |-> faq.category, status |-> faq.status,
                confidence_score |-> faq.confidence_score,
                helpful_count |-> faq.helpful_count,
                not_helpful_count |-> faq.not_helpful_count,
                published_at |-> faq.published_at,
                helpfulness_ratio |->
                    IF total_votes > 0
                    THEN [num |-> faq.helpful_count, den |-> total_votes]
                    ELSE NoneValue])

\* lines 117-120
UPDATE_ALLOWED == {"question", "answer", "category", "tags", "status"}

Updated(faq, updates) ==
    [f \in DOMAIN faq |->
        IF f \in UPDATE_ALLOWED /\ f \in DOMAIN updates THEN updates[f]
        ELSE faq[f]]

\* lines 136-138
Published(faq) == [faq EXCEPT !.status = "published", !.published_at = Utcnow]

\* lines 51-64
CreateFaq ==
    /\ uuids < MaxFaqIds
    /\ LET row == FAQDBCreated(Uuid4(uuids), FaqCreate1)
       IN  /\ db' = [db EXCEPT !.faqs = Append(@, row)]
           /\ response' = FaqToResponse(row)
    /\ uuids' = uuids + 1
    /\ UNCHANGED <<runVars, call, prev, parked, route, votes>>

\* lines 67-102: generate_faqs_only awaits FAQGeneratorAgent.generate and the
\* generated FAQs are stored
GenerateFaqs ==
    /\ uuids < MaxFaqIds
    /\ \E support_tickets \in {NoneList, List(<<Ticket1>>)},
          reply \in RunFaqReplies :
         LET out == Generate(OrEmpty(support_tickets), OrEmpty(NoneList),
                             NoneList, reply)
         IN  IF out.kind = "raise"
             THEN /\ response' = out
                  /\ UNCHANGED <<db, uuids>>
             ELSE LET faqs == out.value.faqs
                      rows == [i \in 1..Len(faqs) |->
                                 FAQDBGenerated(Uuid4(uuids + i - 1), faqs[i])]
                  IN  /\ db' = [db EXCEPT !.faqs = @ \o rows]
                      /\ uuids' = uuids + Len(faqs)
                      /\ response' = Return([faqs_generated |-> Len(faqs)])
    /\ UNCHANGED <<runVars, call, prev, parked, route, votes>>

\* lines 105-125
UpdateFaq ==
    /\ \E faq_id \in FaqIds, updates \in FaqUpdates :
         IF Stored(faq_id) = {}
         THEN /\ response' = NotFound
              /\ UNCHANGED db
         ELSE /\ db' = Written(faq_id, Updated(StoredRow(faq_id), updates))
              /\ response' = Return([updated |-> TRUE])
    /\ UNCHANGED <<runVars, call, prev, parked, uuids, route, votes>>

\* lines 128-141
PublishFaq ==
    /\ \E faq_id \in FaqIds :
         IF Stored(faq_id) = {}
         THEN /\ response' = NotFound
              /\ UNCHANGED db
         ELSE /\ db' = Written(faq_id, Published(StoredRow(faq_id)))
              /\ response' = Return([published |-> TRUE])
    /\ UNCHANGED <<runVars, call, prev, parked, uuids, route, votes>>

\* lines 151-159: the session loads the row and the handler increments one
\* counter of the loaded object
FeedbackLoad ==
    /\ Len(votes) < MaxVotes
    /\ \E faq_id \in FaqIds, helpful \in BOOLEAN :
         IF Stored(faq_id) = {}
         THEN /\ response' = NotFound
              /\ UNCHANGED votes
         ELSE LET faq == StoredRow(faq_id)
              IN  /\ votes' = Append(votes,
                        [faq_id |-> faq_id, helpful |-> helpful, at |-> "loaded",
                         helpful_count |->
                            IF helpful THEN faq.helpful_count + 1
                            ELSE faq.helpful_count,
                         not_helpful_count |->
                            IF helpful THEN faq.not_helpful_count
                            ELSE faq.not_helpful_count + 1])
                  /\ UNCHANGED response
    /\ UNCHANGED <<runVars, call, prev, parked, uuids, db, route>>

\* lines 161-162: the commit writes the attribute the handler assigned; a
\* row deleted in the meantime makes the flush fail
FeedbackCommit ==
    /\ \E k \in 1..Len(votes) :
         /\ votes[k].at = "loaded"
         /\ IF Stored(votes[k].faq_id) = {}
            THEN /\ votes' = [votes EXCEPT ![k].at = "raised"]
                 /\ response' = Raise("StaleDataError")
                 /\ UNCHANGED db
            ELSE LET faq == StoredRow(votes[k].faq_id)
                     row == IF votes[k].helpful
                            THEN [faq EXCEPT !.helpful_count =
                                                votes[k].helpful_count]
                            ELSE [faq EXCEPT !.not_helpful_count =
                                                votes[k].not_helpful_count]
                 IN  /\ db' = Written(votes[k].faq_id, row)
                     /\ votes' = [votes EXCEPT ![k].at = "recorded"]
                     /\ response' = Return([recorded |-> TRUE])
    /\ UNCHANGED <<runVars, call, prev, parked, uuids, route>>

\* lines 165-175
DeleteFaq ==
    /\ \E faq_id \in FaqIds :
         IF Stored(faq_id) = {}
         THEN /\ response' = NotFound
              /\ UNCHANGED db
         ELSE /\ db' = [db EXCEPT !.faqs =
                           SelectSeq(@, LAMBDA row : row.id # faq_id)]
              /\ response' = Return([deleted |-> TRUE])
    /\ UNCHANGED <<runVars, call, prev, parked, uuids, route, votes>>

\* lines 41-48
GetFaq ==
    /\ \E faq_id \in FaqIds :
         response' = IF Stored(faq_id) = {} THEN NotFound
                     ELSE FaqToResponse(StoredRow(faq_id))
    /\ UNCHANGED <<runVars, call, prev, parked, uuids, db, route, votes>>

\* lines 19-38, without filters: the rows newest first, each converted
ListFaqs ==
    /\ LET n == Len(db.faqs)
           converted == [i \in 1..n |-> FaqToResponse(db.faqs[n + 1 - i])]
       IN  response' =
             IF \E i \in 1..n : converted[i].kind = "raise"
             THEN Raise("ValueError")
             ELSE Return([i \in 1..n |-> converted[i].value])
    /\ UNCHANGED <<runVars, call, prev, parked, uuids, db, route, votes>>

NextFaqs ==
    \/ CreateFaq \/ GenerateFaqs
    \/ UpdateFaq \/ PublishFaq
    \/ FeedbackLoad \/ FeedbackCommit
    \/ DeleteFaq
    \/ GetFaq \/ ListFaqs

SpecFaqs == Init /\ [][NextFaqs]_vars

-----------------------------------------------------------------------------
(* Properties of the FAQ routes, checked under SpecFaqs *)

\* the faq_feedback requests for one FAQ that answered "recorded"
Recorded(faq_id) ==
    {k \in 1..Len(votes) : votes[k].faq_id = faq_id /\ votes[k].at = "recorded"}

\* C29: for every stored FAQ the two counters add up to the number of
\* faq_feedback requests that answered "recorded" for it, and helpful_count
\* is the number of those with helpful = true, whatever the interleaving of
\* the requests: no vote is lost
C29_NoVoteLost ==
    \A i \in 1..Len(db.faqs) :
        LET faq == db.faqs[i]
        IN  /\ faq.helpful_count + faq.not_helpful_count
                  = Cardinality(Recorded(faq.id))
            /\ faq.helpful_count
                  = Cardinality({k \in Recorded(faq.id) : votes[k].helpful})

\* C30: every stored FAQ has a status of the FAQStatus enumeration and has
\* published_at set when that status is published, and no get_faq or
\* list_faqs request fails while converting a stored row
C30_StoredFaqsConvert ==
    /\ \A i \in 1..Len(db.faqs) :
          /\ db.faqs[i].status \in FAQStatus
          /\ db.faqs[i].status = "published" =>
                 db.faqs[i].published_at # NoneValue
    /\ response # Raise("ValueError")

=============================================================================
